---------------------------- MODULE Spec2Model ----------------------------
(***************************************************************************)
(* MoonSync: the annotation decoder, the position decoder, the fuzzy file  *)
(* matcher and the document synchronizer, modelled from the TypeScript     *)
(* sources.  Text is modelled as sequences of one-character strings, a     *)
(* file as a sequence of lines, a nullable value as <<>> (null) or <<v>>.  *)
(***************************************************************************)
EXTENDS Integers, Sequences, FiniteSets, TLC

VARIABLES
    fsFiles,    \* SpecFind: the output folder, path -> title in the file's header
    fsCache,    \* SpecFind: the title cache built by buildTitleCache
    fsBook,     \* SpecFind: the title of the BookRecord being resolved
    fsOut,      \* SpecFind: what findExistingFile returned and did
    fsPc,       \* SpecFind: "scan" | "find" | "done"
    poContent,  \* SpecPos: the content of a position file
    poResult,   \* SpecPos: what parseProgressFile returned
    poPc,       \* SpecPos: "parse" | "done"
    dcData,     \* SpecDec: an annotation file, [ok, text]: whether it inflates, and to what
    dcFilename, \* SpecDec: the annotation file's name
    dcBlocks,   \* SpecDec: the blocks the text was written from (not read by the decoder)
    dcResult,   \* SpecDec: what parseAnnotationFile returned
    dcPc,       \* SpecDec: "parse" | "done"
    sySource,     \* Spec: the reader's cache directory, Null or <<files>>, a file [name, data]
    syVault,      \* Spec: the documents of the output folder, path -> content
    syFolderExists, \* Spec: whether the output folder exists
    syCovers,     \* Spec: the file names in the covers folder
    syCacheFile,  \* Spec: the metadata cache as saved, key -> entry
    sySettings,   \* Spec: the settings object the pass and the settings tab share
    syToday,      \* Spec: the day, as new Date().toISOString().split("T")[0] gives it
    syStoreFails, \* Spec: whether the store can fail a write of a document
    syPc,         \* Spec: "idle" | "books" | "custom", where syncFromMoonReader is
    syBooksWithHighlights, \* Spec: the BookData of the pass
    syBookAt,     \* Spec: the index i of the loop over booksWithHighlights
    syCache,      \* Spec: the metadata cache of the pass
    syCacheModified, \* Spec: whether the pass has to save the cache
    syPrefetchedInfo, \* Spec: what the batch lookup returned, "title|author" -> result
    syTitleCache, \* Spec: what buildTitleCache returned at the start of the pass
    syResult,     \* Spec: the SyncResult of the pass
    syCustomBooks, \* Spec: the scanned documents that are not from the reader
    syCustomAt,   \* Spec: the index i of the loop over customBooks
    syResults,    \* Spec, history: the SyncResult of each pass that has returned
    syBefore,     \* Spec, history: the documents as they were when the pass started
    syQuiet,      \* Spec, history: nothing but passes has acted since the last pass returned
    syUserNotes,  \* Spec, history: path -> what the user typed under My Notes
    syProtected,  \* Spec, history: path -> the metadata lines of a header the user protected
    syDropped,    \* Spec, history: the documents whose book lost all highlights, tracking off
    syDid,        \* Spec, history: path -> what the pass did to the document
    syAuthored,   \* Spec, history: path -> the body of a document the user made, at the start
    syUsed,       \* Spec, history: how often the user has edited, changed, toggled
    mgOpenLibrary, \* SpecMerge: what fetchFromOpenLibrary returned
    mgGoogleBooks, \* SpecMerge: what fetchFromGoogleBooks returned
    mgResult,     \* SpecMerge: what fetchBookInfo returned
    mgPc,         \* SpecMerge: "fetch" | "done"
    pbVault,      \* SpecBook: path -> content of the documents before processBook
    pbCovers,     \* SpecBook: the cover files
    pbCache,      \* SpecBook: the lookup cache
    pbBook,       \* SpecBook: the BookData processBook is called with
    pbSettings,   \* SpecBook: the settings
    pbPrefetched, \* SpecBook: what the batch lookup holds
    pbOutcome,    \* SpecBook: what processBook left behind
    pbPc,         \* SpecBook: "process" | "done"
    rsSettings,   \* SpecRun: dropboxPath is set, showRibbonIcon, syncOnStartup
    rsTimer,      \* SpecRun: the timer of the startup sync: "none" | "pending" | "fired"
    rsRuns,       \* SpecRun: of each call of syncFromMoonReader, the step it is at
    rsCalls,      \* SpecRun: how often runSync has been called
    rdFiles,      \* SpecRead: the cache directory as readdir lists it
    rdTrack,      \* SpecRead: trackBooksWithoutHighlights
    rdMap,        \* SpecRead: bookDataMap, in insertion order
    rdAt,         \* SpecRead: the file the loop over the .po files is at
    rdResult,     \* SpecRead: what parseAnnotationFiles returned
    rdPc,         \* SpecRead: "an" | "po" | "done"
    ixBooks,      \* SpecIndex: booksWithHighlights at the end of the loops
    ixScanned,    \* SpecIndex: what scanAllBookNotes returns
    ixSettings,   \* SpecIndex: showIndex, generateBaseFile
    ixResult,     \* SpecIndex: the SyncResult of the pass
    ixVault,      \* SpecIndex: the index note and the base file, path -> content
    ixBefore,     \* SpecIndex, history: ixVault when the loops ended
    ixMerged,     \* SpecIndex, history: what mergeBookLists handed to the renderer
    ixPc          \* SpecIndex: "index" | "base" | "return" | "done"

fsVars == <<fsFiles, fsCache, fsBook, fsOut, fsPc>>

poVars == <<poContent, poResult, poPc>>

dcVars == <<dcData, dcFilename, dcBlocks, dcResult, dcPc>>

storeVars == <<sySource, syVault, syFolderExists, syCovers, syCacheFile, sySettings, syToday,
              syStoreFails>>

passVars == <<syPc, syBooksWithHighlights, syBookAt, syCache, syCacheModified, syPrefetchedInfo,
              syTitleCache, syResult, syCustomBooks, syCustomAt>>

historyVars == <<syResults, syBefore, syQuiet, syUserNotes, syProtected, syDropped, syDid,
                 syAuthored, syUsed>>

syVars == <<storeVars, passVars, historyVars>>

mgVars == <<mgOpenLibrary, mgGoogleBooks, mgResult, mgPc>>

pbVars == <<pbVault, pbCovers, pbCache, pbBook, pbSettings, pbPrefetched, pbOutcome, pbPc>>

\* the variables of the specifications of single functions
rsVars == <<rsSettings, rsTimer, rsRuns, rsCalls>>

rdVars == <<rdFiles, rdTrack, rdMap, rdAt, rdResult, rdPc>>

ixVars == <<ixBooks, ixScanned, ixSettings, ixResult, ixVault, ixBefore, ixMerged, ixPc>>

restVars == <<mgVars, pbVars, rsVars, rdVars, ixVars>>

vars == <<fsVars, poVars, dcVars, syVars, restVars>>

\* what the actions of one specification leave alone
notFs == <<poVars, dcVars, syVars, restVars>>

notPo == <<fsVars, dcVars, syVars, restVars>>

notDc == <<fsVars, poVars, syVars, restVars>>

notSy == <<fsVars, poVars, dcVars, restVars>>

notMg == <<fsVars, poVars, dcVars, syVars, pbVars, rsVars, rdVars, ixVars>>

notPb == <<fsVars, poVars, dcVars, syVars, mgVars, rsVars, rdVars, ixVars>>

notRs == <<fsVars, poVars, dcVars, syVars, mgVars, pbVars, rdVars, ixVars>>

notRd == <<fsVars, poVars, dcVars, syVars, mgVars, pbVars, rsVars, ixVars>>

notIx == <<fsVars, poVars, dcVars, syVars, mgVars, pbVars, rsVars, rdVars>>

\* the variables of a specification that is not the one being run
FsIdle ==
    /\ fsFiles = << >>
    /\ fsCache = <<>>
    /\ fsBook = <<>>
    /\ fsOut = [path |-> <<>>, selected |-> 0, renamed |-> FALSE,
                before |-> << >>, threw |-> FALSE]
    /\ fsPc = "idle"

PoIdle ==
    /\ poContent = <<>>
    /\ poResult = <<>>
    /\ poPc = "idle"

DcIdle ==
    /\ dcData = [ok |-> FALSE, text |-> <<>>]
    /\ dcFilename = <<>>
    /\ dcBlocks = <<>>
    /\ dcResult = <<>>
    /\ dcPc = "idle"

SyIdle ==
    /\ sySource = <<>>
    /\ syVault = << >>
    /\ syFolderExists = FALSE
    /\ syCovers = {}
    /\ syCacheFile = << >>
    /\ sySettings = << >>
    /\ syToday = <<>>
    /\ syStoreFails = FALSE
    /\ syPc = "off"
    /\ syBooksWithHighlights = <<>>
    /\ syBookAt = 0
    /\ syCache = << >>
    /\ syCacheModified = FALSE
    /\ syPrefetchedInfo = << >>
    /\ syTitleCache = <<>>
    /\ syResult = << >>
    /\ syCustomBooks = <<>>
    /\ syCustomAt = 0
    /\ syResults = <<>>
    /\ syBefore = << >>
    /\ syQuiet = FALSE
    /\ syUserNotes = << >>
    /\ syProtected = << >>
    /\ syDropped = {}
    /\ syDid = << >>
    /\ syAuthored = << >>
    /\ syUsed = << >>

MgIdle ==
    /\ mgOpenLibrary = << >>
    /\ mgGoogleBooks = << >>
    /\ mgResult = << >>
    /\ mgPc = "idle"

PbIdle ==
    /\ pbVault = << >>
    /\ pbCovers = {}
    /\ pbCache = << >>
    /\ pbBook = << >>
    /\ pbSettings = << >>
    /\ pbPrefetched = << >>
    /\ pbOutcome = << >>
    /\ pbPc = "idle"

RsIdle ==
    /\ rsSettings = << >>
    /\ rsTimer = "none"
    /\ rsRuns = <<>>
    /\ rsCalls = 0

RdIdle ==
    /\ rdFiles = <<>>
    /\ rdTrack = FALSE
    /\ rdMap = <<>>
    /\ rdAt = 0
    /\ rdResult = <<>>
    /\ rdPc = "idle"

IxIdle ==
    /\ ixBooks = <<>>
    /\ ixScanned = <<>>
    /\ ixSettings = << >>
    /\ ixResult = << >>
    /\ ixVault = << >>
    /\ ixBefore = << >>
    /\ ixMerged = <<>>
    /\ ixPc = "idle"

RestIdle == MgIdle /\ PbIdle /\ RsIdle /\ RdIdle /\ IxIdle

-----------------------------------------------------------------------------
(* Characters and strings *)

Null == <<>>

Some(v) == <<v>>

IsNull(o) == o = <<>>

Val(o) == o[1]

UpperCase ==
    <<"A","B","C","D","E","F","G","H","I","J","K","L","M",
      "N","O","P","Q","R","S","T","U","V","W","X","Y","Z">>

LowerCase ==
    <<"a","b","c","d","e","f","g","h","i","j","k","l","m",
      "n","o","p","q","r","s","t","u","v","w","x","y","z">>

\* String.prototype.toLowerCase on one character
LowerChar(c) ==
    IF \E i \in 1..Len(UpperCase) : UpperCase[i] = c
    THEN LowerCase[CHOOSE i \in 1..Len(UpperCase) : UpperCase[i] = c]
    ELSE c

toLowerCase(s) == [i \in 1..Len(s) |-> LowerChar(s[i])]

\* the characters JavaScript's \s and trim() treat as white space
IsSpace(c) == c \in {" ", "\t", "\n", "\r"}

RECURSIVE trimStart(_)
trimStart(s) ==
    IF s # <<>> /\ IsSpace(Head(s)) THEN trimStart(Tail(s)) ELSE s

RECURSIVE trimEnd(_)
trimEnd(s) ==
    IF s # <<>> /\ IsSpace(s[Len(s)]) THEN trimEnd(SubSeq(s, 1, Len(s) - 1)) ELSE s

trim(s) == trimEnd(trimStart(s))

endsWith(s, suf) ==
    /\ Len(suf) <= Len(s)
    /\ SubSeq(s, Len(s) - Len(suf) + 1, Len(s)) = suf

startsWith(s, pre) ==
    /\ Len(pre) <= Len(s)
    /\ SubSeq(s, 1, Len(pre)) = pre

Min2(a, b) == IF a <= b THEN a ELSE b

Max2(a, b) == IF a >= b THEN a ELSE b

\* Body of value: a value that is computed once and used in several places
bind(value, Body(_)) == Body(value)

\* f with k mapped to v, and the value of f at k, if it has one
put(f, k, v) == [x \in DOMAIN f \cup {k} |-> IF x = k THEN v ELSE f[x]]

valueAt(f, k) == IF k \in DOMAIN f THEN f[k] ELSE <<>>

-----------------------------------------------------------------------------
(* calculateSimilarity: Levenshtein distance over the lower-cased strings *)

\* LevRow with the deletion step costing nothing
RECURSIVE LevRowFreeDeletion(_, _, _, _)
LevRowFreeDeletion(prev, ch, s2, acc) ==
    IF Len(acc) = Len(s2) + 1 THEN acc
    ELSE LET j    == Len(acc)
             cost == IF ch = s2[j] THEN 0 ELSE 1
             cell == Min2(Min2(prev[j + 1], acc[j] + 1), prev[j] + cost)
         IN  LevRowFreeDeletion(prev, ch, s2, Append(acc, cell))

\* one row of the distance matrix: matrix[i] from matrix[i-1] and s1[i-1]
RECURSIVE LevRow(_, _, _, _)
LevRow(prev, ch, s2, acc) ==
    IF Len(acc) = Len(s2) + 1 THEN acc
    ELSE LET j    == Len(acc)
             cost == IF ch = s2[j] THEN 0 ELSE 1
             cell == Min2(Min2(prev[j + 1] + 1, acc[j] + 1), prev[j] + cost)
         IN  LevRow(prev, ch, s2, Append(acc, cell))

RECURSIVE LevRows(_, _, _, _)
LevRows(s1, s2, i, prev) ==
    IF i > Len(s1) THEN prev
    ELSE LET row == LevRow(prev, s1[i], s2, <<i>>)
         IN  IF Len(row) = Len(prev) THEN LevRows(s1, s2, i + 1, row) ELSE <<>>

Levenshtein(s1, s2) ==
    LevRows(s1, s2, 1, [j \in 1..(Len(s2) + 1) |-> j - 1])[Len(s2) + 1]

\* The similarity 1 - distance/maxLen is kept as the exact fraction
\* (m - d) / m, written [d, m]: for lengths up to 100 two different
\* fractions differ by more than 1e-4, so the double-precision results
\* compare exactly as the fractions do.
calculateSimilarity(str1, str2) ==
    LET s1 == toLowerCase(str1)
        s2 == toLowerCase(str2)
    IN  IF s1 = s2 THEN [d |-> 0, m |-> 1]
        ELSE IF Len(s1) = 0 THEN [d |-> 1, m |-> 1]
        ELSE IF Len(s2) = 0 THEN [d |-> 1, m |-> 1]
        ELSE [d |-> Levenshtein(s1, s2), m |-> Max2(Len(s1), Len(s2))]

\* SIMILARITY_THRESHOLD = 0.80, in hundredths
SIMILARITY_THRESHOLD == 80

\* similarity > SIMILARITY_THRESHOLD
AboveThreshold(sim) == 100 * (sim.m - sim.d) > SIMILARITY_THRESHOLD * sim.m

\* similarity >= SIMILARITY_THRESHOLD
AtLeastThreshold(sim) == 100 * (sim.m - sim.d) >= SIMILARITY_THRESHOLD * sim.m

\* a > b on similarities
SimGreater(a, b) == (a.m - a.d) * b.m > (b.m - b.d) * a.m

-----------------------------------------------------------------------------
(* normalizeBookTitle (sync), generateFilename *)

\* the alternatives of /\.(epub|mobi|pdf|azw3?|fb2|txt)$/i
FileExtensions ==
    { <<".","e","p","u","b">>, <<".","m","o","b","i">>, <<".","p","d","f">>,
      <<".","a","z","w","3">>, <<".","a","z","w">>, <<".","f","b","2">>,
      <<".","t","x","t">> }

stripExtension(title) ==
    IF \E e \in FileExtensions : endsWith(toLowerCase(title), e)
    THEN LET e == CHOOSE x \in FileExtensions : endsWith(toLowerCase(title), x)
         IN  SubSeq(title, 1, Len(title) - Len(e))
    ELSE title

normalizeBookTitle(title) == trim(stripExtension(title))

\* the characters removed by /[<>:"/\\|?*]/g
InvalidFilenameChars == {"<", ">", ":", "\"", "/", "\\", "|", "?", "*"}

RECURSIVE removeInvalid(_)
removeInvalid(s) ==
    IF s = <<>> THEN <<>>
    ELSE IF Head(s) \in InvalidFilenameChars THEN removeInvalid(Tail(s))
    ELSE <<Head(s)>> \o removeInvalid(Tail(s))

\* .replace(/\s+/g, " ")
RECURSIVE collapseSpace(_)
collapseSpace(s) ==
    IF s = <<>> THEN <<>>
    ELSE IF IsSpace(Head(s))
         THEN <<" ">> \o collapseSpace(trimStart(Tail(s)))
         ELSE <<Head(s)>> \o collapseSpace(Tail(s))

\* .substring(0, 100)
FilenameLimit == 100

generateFilename(title) ==
    LET t == trim(collapseSpace(removeInvalid(title)))
    IN  SubSeq(t, 1, Min2(Len(t), FilenameLimit))

-----------------------------------------------------------------------------
(* buildTitleCache, findExistingFile.  A folder is a function from the     *)
(* paths that exist to what the file holds; `listing` is the order in      *)
(* which adapter.list returns the paths; titleOf reads a file's title.     *)

RECURSIVE buildTitleCacheFrom(_, _, _)
buildTitleCacheFrom(titles, listing, i) ==
    IF i > Len(listing) THEN <<>>
    ELSE LET rest == buildTitleCacheFrom(titles, listing, i + 1)
             t    == titles[listing[i]]
         IN  IF t # <<>>
             THEN <<[normalizedTitle |-> normalizeBookTitle(t),
                     filePath |-> listing[i]]>> \o rest
             ELSE rest

\* titles: path -> the title parseFrontmatter reads from that file
buildTitleCache(titles, listing) == buildTitleCacheFrom(titles, listing, 1)

\* one iteration of the loop over titleCache
betterMatch(best, entry, similarity, i) ==
    IF /\ AtLeastThreshold(similarity)
       /\ (IsNull(best) \/ SimGreater(similarity, Val(best).similarity))
    THEN Some([path |-> entry.filePath, similarity |-> similarity, at |-> i])
    ELSE best

\* the loop over titleCache: best is Null or Some([path, similarity, at])
RECURSIVE bestMatchFrom(_, _, _, _)
bestMatchFrom(normalizedBookTitle, titleCache, i, best) ==
    IF i > Len(titleCache) THEN best
    ELSE bestMatchFrom(normalizedBookTitle, titleCache, i + 1,
            betterMatch(best, titleCache[i],
                calculateSimilarity(normalizedBookTitle, titleCache[i].normalizedTitle),
                i))

\* adapter.rename(from, to) on a folder
renameFile(files, from, to) ==
    [p \in (DOMAIN files \ {from}) \cup {to} |-> IF p = to THEN files[from] ELSE files[p]]

\* Returns the path, the folder after the call, the title-cache entry
\* selected (0 = none) and whether the file was renamed.  renameThrows is
\* the store failing the rename; a rename of a path that no longer exists
\* throws as well.
findExistingFile(files, preferredFilename, bookTitle, titleCache, renameThrows) ==
    LET preferredPath == preferredFilename
        bestMatch     == bestMatchFrom(normalizeBookTitle(bookTitle), titleCache, 1, Null)
    IN  IF preferredPath \in DOMAIN files
        THEN [path |-> preferredPath, files |-> files, selected |-> 0, renamed |-> FALSE]
        ELSE IF ~IsNull(bestMatch)
        THEN IF Val(bestMatch).path # preferredPath
             THEN IF Val(bestMatch).path \in DOMAIN files /\ ~renameThrows
                  THEN [path |-> preferredPath,
                        files |-> renameFile(files, Val(bestMatch).path, preferredPath),
                        selected |-> Val(bestMatch).at, renamed |-> TRUE]
                  ELSE [path |-> Val(bestMatch).path, files |-> files,
                        selected |-> Val(bestMatch).at, renamed |-> FALSE]
             ELSE [path |-> Val(bestMatch).path, files |-> files,
                   selected |-> Val(bestMatch).at, renamed |-> FALSE]
        ELSE [path |-> preferredPath, files |-> files, selected |-> 0, renamed |-> FALSE]

-----------------------------------------------------------------------------
(* SpecFind: findExistingFile applied to a folder of stored documents *)

WeAreLegion == <<"W","e"," ","A","r","e"," ","L","e","g","i","o","n">>

WeAreLegionBob == WeAreLegion \o <<" ","(","W","e"," ","A","r","e"," ","B","o","b",")">>

Dune == <<"D","u","n","e">>

DuneMessiah == Dune \o <<" ","M","e","s","s","i","a","h">>

Dune1 == Dune \o <<"1">>

Dune2 == Dune \o <<"2">>

\* the stored documents SpecFind draws from: a path and the header's title
FsDocs ==
    { [path |-> generateFilename(WeAreLegion), title |-> WeAreLegion],
      [path |-> generateFilename(Dune), title |-> Dune],
      [path |-> generateFilename(Dune1), title |-> Dune1],
      [path |-> <<"a">>, title |-> Dune \o <<" ","M","e","s","s","i","a","s">>],
      [path |-> <<"b">>, title |-> <<"d","u","n","e"," ","m","e","s","i","a","h">>],
      [path |-> <<"c">>, title |-> Dune \o <<" ","M","e","s","s","i">>],
      [path |-> <<"d">>, title |-> <<"D","U","N","E"," ","M","E","S","S","I","A","H",
                                     ".","e","p","u","b">>],
      [path |-> <<"e">>, title |-> <<>>],
      [path |-> generateFilename(DuneMessiah), title |-> DuneMessiah] }

FsBooks == {WeAreLegionBob, DuneMessiah, Dune2}

\* how many stored documents a folder of SpecFind holds at most
MaxStored == 2

\* the orders in which adapter.list can return the paths of a folder
Listings(paths) ==
    { l \in [1..Cardinality(paths) -> paths] :
        \A i, j \in 1..Cardinality(paths) : i # j => l[i] # l[j] }

FsInit ==
    /\ \E S \in SUBSET FsDocs :
        /\ Cardinality(S) <= MaxStored
        /\ fsFiles = [p \in {d.path : d \in S} |->
                        (CHOOSE d \in S : d.path = p).title]
    /\ fsCache = <<>>
    /\ fsBook \in FsBooks
    /\ fsOut = [path |-> <<>>, selected |-> 0, renamed |-> FALSE,
                before |-> << >>, threw |-> FALSE]
    /\ fsPc = "scan"

\* buildTitleCache at the start of a pass
FsBuildTitleCache ==
    /\ fsPc = "scan"
    /\ \E listing \in Listings(DOMAIN fsFiles) :
        fsCache' = buildTitleCache(fsFiles, listing)
    /\ fsPc' = "find"
    /\ UNCHANGED <<fsFiles, fsBook, fsOut, notFs>>

\* an earlier book of the same pass has moved a file the cache still lists
FsEarlierRename ==
    /\ fsPc = "find"
    /\ \A i \in 1..Len(fsCache) : fsCache[i].filePath \in DOMAIN fsFiles
    /\ \E p \in DOMAIN fsFiles :
        fsFiles' = [q \in DOMAIN fsFiles \ {p} |-> fsFiles[q]]
    /\ UNCHANGED <<fsCache, fsBook, fsOut, fsPc, notFs>>

\* processBook resolving the document of fsBook
FsFind ==
    /\ fsPc = "find"
    /\ \E renameThrows \in BOOLEAN :
        \E r \in {findExistingFile(fsFiles, generateFilename(fsBook), fsBook,
                                   fsCache, renameThrows)} :
            /\ fsOut' = [path |-> r.path, selected |-> r.selected,
                         renamed |-> r.renamed, before |-> fsFiles,
                         threw |-> renameThrows]
            /\ fsFiles' = r.files
    /\ fsPc' = "done"
    /\ UNCHANGED <<fsCache, fsBook, notFs>>

FsNext == FsBuildTitleCache \/ FsEarlierRename \/ FsFind

InitFind == FsInit /\ PoIdle /\ DcIdle /\ SyIdle /\ RestIdle

SpecFind == InitFind /\ [][FsNext]_vars

-----------------------------------------------------------------------------
(* Claims about findExistingFile, under SpecFind *)

\* the title-cache entry findExistingFile selected is the one titled t
FsSelectedIs(t) ==
    /\ fsOut.selected # 0
    /\ fsCache[fsOut.selected].normalizedTitle = t

\* findExistingFile has run for WeAreLegionBob with the stored document
\* "We Are Legion" in the folder and in the title cache
FsLegionCase ==
    /\ fsPc = "done"
    /\ fsBook = WeAreLegionBob
    /\ generateFilename(WeAreLegion) \in DOMAIN fsOut.before
    /\ \E i \in 1..Len(fsCache) : fsCache[i].normalizedTitle = WeAreLegion

\* C7, as claimed: "We Are Legion" and "We Are Legion (We Are Bob)" have
\* similarity >= 0.80, so findExistingFile selects the stored document and
\* (unless the store fails the rename) renames it to the canonical filename.
C7_LegionIsMatched ==
    FsLegionCase =>
        /\ AtLeastThreshold(calculateSimilarity(WeAreLegionBob, WeAreLegion))
        /\ FsSelectedIs(WeAreLegion)
        /\ (~fsOut.threw =>
                /\ fsOut.renamed
                /\ fsOut.path = generateFilename(WeAreLegionBob))

\* C7, amended: the two titles have similarity 1 - 13/26 = 0.5, below 0.80,
\* so findExistingFile does not select the stored "We Are Legion" document;
\* the document stays where it was, and with no other entry reaching 0.80
\* the canonical path is returned and nothing is renamed.
C7_LegionIsNotMatched ==
    FsLegionCase =>
        /\ calculateSimilarity(WeAreLegionBob, WeAreLegion) = [d |-> 13, m |-> 26]
        /\ ~FsSelectedIs(WeAreLegion)
        /\ generateFilename(WeAreLegion) \in DOMAIN fsFiles
        /\ fsFiles[generateFilename(WeAreLegion)] = WeAreLegion
        /\ fsOut.path = generateFilename(WeAreLegionBob)
        /\ ~fsOut.renamed

C7_Witness ==
    /\ FsLegionCase
    /\ fsOut.path = generateFilename(WeAreLegionBob)
    /\ fsOut.path \notin DOMAIN fsFiles

\* 1 - d/m >= 0.80, stated on the fraction
C8_Reaches80(sim) == 5 * sim.d <= sim.m

C8_Sim(i) == calculateSimilarity(normalizeBookTitle(fsBook), fsCache[i].normalizedTitle)

\* a <= b on similarities
C8_SimLeq(a, b) == a.d * b.m >= b.d * a.m

-----------------------------------------------------------------------------
(* parseProgressFile: /^(\d+)\*(\d+)@\d+#\d+:(\d+(?:\.\d+)?)%$/ on the      *)
(* trimmed content.  A number is kept as its decimal digits: parseInt as   *)
(* the digits without leading zeros, parseFloat as integer and fraction    *)
(* digits without leading and trailing zeros.                              *)

Digits == {"0", "1", "2", "3", "4", "5", "6", "7", "8", "9"}

\* the index after the longest run of digits of s that starts at i (\d+ or \d*)
RECURSIVE digitsEnd(_, _)
digitsEnd(s, i) ==
    IF i <= Len(s) /\ s[i] \in Digits THEN digitsEnd(s, i + 1) ELSE i

RECURSIVE stripLeadingZeros(_)
stripLeadingZeros(ds) ==
    IF Len(ds) > 1 /\ Head(ds) = "0" THEN stripLeadingZeros(Tail(ds)) ELSE ds

RECURSIVE stripTrailingZeros(_)
stripTrailingZeros(ds) ==
    IF ds # <<>> /\ ds[Len(ds)] = "0"
    THEN stripTrailingZeros(SubSeq(ds, 1, Len(ds) - 1))
    ELSE ds

\* parseInt(text, 10) of a run of digits
parseIntDigits(ds) == stripLeadingZeros(ds)

\* parseFloat of \d+(\.\d+)?
parseFloatDigits(int, frac) ==
    [int |-> stripLeadingZeros(int), frac |-> stripTrailingZeros(frac)]

\* s[i] = c, false past the end
charAt(s, i, c) == i <= Len(s) /\ s[i] = c

\* %$ without the anchor
percentAnywhere(s, i) == charAt(s, i, "%")

\* %$
percentAtEnd(s, i) == charAt(s, i, "%") /\ i = Len(s)

\* Matches the pattern against content from left to right; each \d+ takes
\* the longest run of digits (what follows it is never a digit), the
\* optional fraction is taken when a dot and a digit follow.
parseProgressFile(data) ==
    LET content == trim(data)
        e1 == digitsEnd(content, 1)
        e2 == digitsEnd(content, e1 + 1)
        e3 == digitsEnd(content, e2 + 1)
        e4 == digitsEnd(content, e3 + 1)
        e5 == digitsEnd(content, e4 + 1)
        f  == digitsEnd(content, e5 + 1)
        hasFraction == charAt(content, e5, ".") /\ f > e5 + 1
        e6 == IF hasFraction THEN f ELSE e5
    IN  IF /\ e1 > 1           /\ charAt(content, e1, "*")
           /\ e2 > e1 + 1      /\ charAt(content, e2, "@")
           /\ e3 > e2 + 1      /\ charAt(content, e3, "#")
           /\ e4 > e3 + 1      /\ charAt(content, e4, ":")
           /\ e5 > e4 + 1
           /\ percentAtEnd(content, e6)
        THEN Some([timestamp |-> parseIntDigits(SubSeq(content, 1, e1 - 1)),
                   chapter   |-> parseIntDigits(SubSeq(content, e1 + 1, e2 - 1)),
                   progress  |-> parseFloatDigits(
                                    SubSeq(content, e4 + 1, e5 - 1),
                                    IF hasFraction THEN SubSeq(content, e5 + 1, e6 - 1)
                                    ELSE <<>>)])
        ELSE Null

-----------------------------------------------------------------------------
(* SpecPos: parseProgressFile applied to position-file contents *)

\* the longest digit run SpecPos draws for the timestamp field
PoMaxDigits == 2

RECURSIVE DigitStrings(_, _)
DigitStrings(alphabet, n) ==
    IF n = 0 THEN {<<>>}
    ELSE LET shorter == DigitStrings(alphabet, n - 1)
         IN  shorter \cup {<<c>> \o t : c \in alphabet, t \in {x \in shorter : Len(x) = n - 1}}

PoExample ==
    <<"1","7","0","0","0","0","0","0","0","0","0","0","0","*","1","2","@","0",
      "#","5","0","0",":","3","3",".","3","%">>

\* the ten parts of a well-formed content
PoGoodParts ==
    << (DigitStrings({"0", "7"}, PoMaxDigits) \ {<<>>})
            \cup {<<"1","7","0","0","0","0","0","0","0","0","0","0","0">>},
       {<<"*">>},
       {<<"1","2">>, <<"0">>},
       {<<"@">>},
       {<<"0">>},
       {<<"#">>},
       {<<"5","0","0">>},
       {<<":">>},
       {<<"3","3",".","3">>, <<"4","1">>, <<"0","3",".","3","0">>, <<"1","0","0",".","0">>,
        <<"0",".","0","5">>, <<"3","3",".","3","3">>},
       {<<"%">>} >>

\* what a faulty part can be instead
PoBadParts ==
    { <<>>, <<"x">>, <<"-","1">>, <<"1"," ","2">>, <<"1",".">>, <<".","5">>,
      <<"1",".","2",".","3">>, <<"3",",","3">>, <<"%","%">>, <<"*">>, <<"%">>,
      <<"1","\n","2">> }

PoPadding == {<<>>, <<" ">>, <<"\t", "\n">>}

RECURSIVE concatAll(_)
concatAll(parts) ==
    IF parts = <<>> THEN <<>> ELSE Head(parts) \o concatAll(Tail(parts))

PoGood ==
    PoGoodParts[1] \X PoGoodParts[2] \X PoGoodParts[3] \X PoGoodParts[4] \X
    PoGoodParts[5] \X PoGoodParts[6] \X PoGoodParts[7] \X PoGoodParts[8] \X
    PoGoodParts[9] \X PoGoodParts[10]

\* well-formed contents, and contents with one part replaced, with padding
PoContents ==
    { pre \o concatAll(parts) \o post :
        pre \in PoPadding, post \in PoPadding,
        parts \in PoGood \cup
                  { [good EXCEPT ![k] = bad] :
                        good \in PoGood, k \in 1..10, bad \in PoBadParts } }

PoInit ==
    /\ poContent \in PoContents
    /\ poResult = Null
    /\ poPc = "parse"

\* parseAnnotationFiles reading one .po file
PoParse ==
    /\ poPc = "parse"
    /\ poResult' = parseProgressFile(poContent)
    /\ poPc' = "done"
    /\ UNCHANGED <<poContent, notPo>>

PoNext == PoParse

InitPos == PoInit /\ FsIdle /\ DcIdle /\ SyIdle /\ RestIdle

SpecPos == InitPos /\ [][PoNext]_vars

-----------------------------------------------------------------------------
(* Claims about parseProgressFile, under SpecPos *)

AllDigits(s, from, to) ==
    /\ from <= to
    /\ \A i \in from..to : s[i] \in Digits

\* s = digits "*" digits "@" digits "#" digits ":" digits [ "." digits ] "%";
\* a, b, c, d are where the four separators are, p where the dot is (0: none)
PoGrammar(s, a, b, c, d, p) ==
    /\ s[a] = "*" /\ s[b] = "@" /\ s[c] = "#" /\ s[d] = ":" /\ s[Len(s)] = "%"
    /\ AllDigits(s, 1, a - 1)
    /\ AllDigits(s, a + 1, b - 1)
    /\ AllDigits(s, b + 1, c - 1)
    /\ AllDigits(s, c + 1, d - 1)
    /\ IF p = 0 THEN AllDigits(s, d + 1, Len(s) - 1)
       ELSE /\ s[p] = "."
            /\ AllDigits(s, d + 1, p - 1)
            /\ AllDigits(s, p + 1, Len(s) - 1)

PoCanonicalInt(x) == Len(x) >= 1 /\ (Len(x) > 1 => x[1] # "0")

\* x is the number the digits ds spell: ds is x after some zeros
PoSameInt(x, ds) ==
    /\ PoCanonicalInt(x)
    /\ \E k \in 0..(Len(ds) - 1) :
        /\ \A i \in 1..k : ds[i] = "0"
        /\ SubSeq(ds, k + 1, Len(ds)) = x

\* x is the fraction the digits ds spell: ds is x before some zeros
PoSameFraction(x, ds) ==
    /\ (x # <<>> => x[Len(x)] # "0")
    /\ \E k \in 0..Len(ds) :
        /\ \A i \in (k + 1)..Len(ds) : ds[i] = "0"
        /\ SubSeq(ds, 1, k) = x

\* the result r is what the fields of s spell, for some split of s
PoReads(s, r) ==
    \E a \in 1..Len(s) : s[a] = "*" /\
    \E b \in (a + 1)..Len(s) : s[b] = "@" /\
    \E c \in (b + 1)..Len(s) : s[c] = "#" /\
    \E d \in (c + 1)..Len(s) : s[d] = ":" /\
    \E p \in {0} \cup (d + 1)..Len(s) :
        /\ PoGrammar(s, a, b, c, d, p)
        /\ PoSameInt(r.timestamp, SubSeq(s, 1, a - 1))
        /\ PoSameInt(r.chapter, SubSeq(s, a + 1, b - 1))
        /\ PoSameInt(r.progress.int,
                     SubSeq(s, d + 1, IF p = 0 THEN Len(s) - 1 ELSE p - 1))
        /\ PoSameFraction(r.progress.frac,
                          IF p = 0 THEN <<>> ELSE SubSeq(s, p + 1, Len(s) - 1))

PoInGrammar(s) ==
    \E a \in 1..Len(s) : s[a] = "*" /\
    \E b \in (a + 1)..Len(s) : s[b] = "@" /\
    \E c \in (b + 1)..Len(s) : s[c] = "#" /\
    \E d \in (c + 1)..Len(s) : s[d] = ":" /\
    \E p \in {0} \cup (d + 1)..Len(s) : PoGrammar(s, a, b, c, d, p)

\* C10: parseProgressFile returns a result exactly when the whole trimmed
\* content is timestamp*chapter@marker#position:percentage% (digits in each
\* integer field, the percentage digits with an optional fraction), the
\* result holds the numbers those fields spell, and the example content
\* 1700000000000*12@0#500:33.3% gives 1700000000000, 12 and 33.3; every
\* other content gives no result.
C10_PositionParse ==
    poPc = "done" =>
        /\ (~IsNull(poResult) <=> PoInGrammar(trim(poContent)))
        /\ (~IsNull(poResult) => PoReads(trim(poContent), Val(poResult)))
        /\ (poContent = PoExample =>
                poResult = Some([timestamp |-> <<"1","7","0","0","0","0","0","0","0",
                                               "0","0","0","0">>,
                                 chapter |-> <<"1","2">>,
                                 progress |-> [int |-> <<"3","3">>, frac |-> <<"3">>]]))

C10_Witness ==
    /\ poPc = "done"
    /\ poContent = PoExample
    /\ ~IsNull(poResult)
    /\ Val(poResult).chapter = <<"1","2">>

-----------------------------------------------------------------------------
(* The annotation decoder: parseAnnotationFile *)

\* the index of the first occurrence of pat in s at or after i, 0 if none
indexOf(s, pat, i) ==
    LET found == { k \in i..(Len(s) - Len(pat) + 1) : SubSeq(s, k, k + Len(pat) - 1) = pat }
    IN  IF found = {} THEN 0 ELSE CHOOSE k \in found : \A j \in found : k <= j

\* text.split("\n")
splitLines(s) ==
    LET breaks == SelectSeq([k \in 1..Len(s) |-> k], LAMBDA k : s[k] = "\n")
    IN  [j \in 1..(Len(breaks) + 1) |->
            SubSeq(s, IF j = 1 THEN 1 ELSE breaks[j - 1] + 1,
                      IF j > Len(breaks) THEN Len(s) ELSE breaks[j] - 1)]

BR == <<"<", "B", "R", ">">>

\* line.replace(/<BR>/g, "\n")
RECURSIVE replaceBR(_)
replaceBR(s) ==
    IF s = <<>> THEN <<>>
    ELSE IF startsWith(s, BR) THEN <<"\n">> \o replaceBR(SubSeq(s, 5, Len(s)))
    ELSE <<Head(s)>> \o replaceBR(Tail(s))

NaN == <<"N", "a", "N">>

\* parseInt(s, 10): leading white space, an optional sign, the longest run of
\* digits; NaN when there is no digit there
parseInt(s) ==
    LET t == trimStart(s)
        signed == t # <<>> /\ t[1] \in {"+", "-"}
        from == IF signed THEN 2 ELSE 1
        to == digitsEnd(t, from)
        ds == stripLeadingZeros(SubSeq(t, from, to - 1))
    IN  IF to = from THEN NaN
        ELSE IF signed /\ t[1] = "-" /\ ds # <<"0">> THEN <<"-">> \o ds
        ELSE ds

\* lines[i], the empty string where the code falls back from undefined or ""
lineOrEmpty(lines, i) == IF i <= Len(lines) THEN lines[i] ELSE <<>>

\* lines[i] || "0"
lineOrZero(lines, i) ==
    IF lineOrEmpty(lines, i) = <<>> THEN <<"0">> ELSE lineOrEmpty(lines, i)

\* title.replace(/\.(epub|mobi|pdf|azw3?|fb2|txt)$/i, ""), less a known
\* " - author" suffix, trimmed
parserNormalizeBookTitle(title, author) ==
    LET normalized == stripExtension(title)
        suffix == <<" ", "-", " ">> \o author
    IN  IF author # <<>> /\ endsWith(normalized, suffix)
        THEN trim(SubSeq(normalized, 1, Len(normalized) - Len(suffix)))
        ELSE trim(normalized)

Hash == <<"#">>

Zero == <<"0">>

\* while (i < lines.length && lines[i] !== "#") i++
RECURSIVE skipHeader(_, _)
skipHeader(lines, i) ==
    IF i <= Len(lines) /\ lines[i] # Hash THEN skipHeader(lines, i + 1) ELSE i

\* while (i < lines.length && lines[i] === "") i++
RECURSIVE skipEmpty(_, _)
skipEmpty(lines, i) ==
    IF i <= Len(lines) /\ lines[i] = <<>> THEN skipEmpty(lines, i + 1) ELSE i

\* while (i < lines.length && (lines[i] === "0" || lines[i] === "")) i++
RECURSIVE skipTrailing(_, _)
skipTrailing(lines, i) ==
    IF i <= Len(lines) /\ (lines[i] = Zero \/ lines[i] = <<>>)
    THEN skipTrailing(lines, i + 1)
    ELSE i

\* any line after the first payload line is taken as a second one
anySecondLine(lines, i) == i <= Len(lines)

\* i < lines.length && lines[i] !== "0" && lines[i] !== ""
isSecondLine(lines, i) == i <= Len(lines) /\ lines[i] # Zero /\ lines[i] # <<>>

\* the text and the optional note at line i, and the line after them
readPayload(lines, i) ==
    IF i <= Len(lines) /\ lines[i] # Zero
    THEN LET firstLine == trim(replaceBR(lines[i]))
         IN  IF isSecondLine(lines, i + 1)
             THEN [note |-> firstLine,
                   text |-> trim(replaceBR(lines[i + 1])),
                   i |-> i + 2]
             ELSE [note |-> <<>>, text |-> firstLine, i |-> i + 1]
    ELSE [note |-> <<>>, text |-> <<>>, i |-> i]

\* one block whose "#" line is line i - 1: the highlight it holds, if its text
\* is not empty, and the line the next block is looked for from
parseBlock(lines, i, author) ==
    LET payload == readPayload(lines, skipEmpty(lines, i + 10))
        highlight ==
            [id |-> parseInt(lineOrZero(lines, i)),
             book |-> parserNormalizeBookTitle(lineOrEmpty(lines, i + 1), author),
             filename |-> lineOrEmpty(lines, i + 2),
             chapter |-> parseInt(lineOrZero(lines, i + 4)),
             position |-> parseInt(lineOrZero(lines, i + 6)),
             highlightLength |-> parseInt(lineOrZero(lines, i + 7)),
             highlightColor |-> parseInt(lineOrZero(lines, i + 8)),
             timestamp |-> parseInt(lineOrZero(lines, i + 9)),
             bookmark |-> <<>>,
             note |-> payload.note,
             originalText |-> payload.text,
             underline |-> FALSE,
             strikethrough |-> FALSE]
    IN  [highlights |-> IF payload.text # <<>> THEN <<highlight>> ELSE <<>>,
         i |-> skipTrailing(lines, payload.i)]

\* while (i < lines.length) { if (lines[i] === "#") { ... } else i++ }
RECURSIVE parseBlocks(_, _, _, _)
parseBlocks(lines, i, author, highlights) ==
    IF i > Len(lines) THEN highlights
    ELSE IF lines[i] # Hash THEN parseBlocks(lines, i + 1, author, highlights)
    ELSE IF i + 1 > Len(lines) THEN highlights
    ELSE LET block == parseBlock(lines, i + 1, author)
             found == highlights \o block.highlights
         IN  IF Len(found) >= Len(highlights)
             THEN parseBlocks(lines, block.i, author, found)
             ELSE found

EpubAn == <<".", "e", "p", "u", "b", ".", "a", "n">>

PdfAn == <<".", "p", "d", "f", ".", "a", "n">>

Dash == <<" ", "-", " ">>

\* s without a suffix it ends with
dropSuffix(s, suf) ==
    IF endsWith(s, suf) THEN SubSeq(s, 1, Len(s) - Len(suf)) ELSE s

\* data is [ok, text]: inflateSync(data) throws when ok is false and gives
\* text otherwise.  Null when anything threw.
parseAnnotationFile(data, filename) ==
    IF ~data.ok THEN Null
    ELSE LET lines == splitLines(data.text)
             baseName == dropSuffix(dropSuffix(filename, EpubAn), PdfAn)
             dash == indexOf(baseName, Dash, 1)
             first == IF dash = 0 THEN baseName ELSE SubSeq(baseName, 1, dash - 1)
             author == IF dash = 0 THEN <<>>
                       ELSE SubSeq(baseName, dash + 3, Len(baseName))
         IN  Some([filename |-> filename,
                   bookTitle |-> parserNormalizeBookTitle(
                                     IF first = <<>> THEN baseName ELSE first, <<>>),
                   author |-> author,
                   highlights |-> parseBlocks(lines, skipHeader(lines, 1), author, <<>>)])

-----------------------------------------------------------------------------
(* SpecDec: parseAnnotationFile on annotation files written block by block *)

MaxBlocks == 2

\* payload lines as they stand in the file (raw) and as they are to be read
\* (plain): <BR> is a line break, white space around the line is dropped
DcLineA == [raw |-> <<"a">>, plain |-> <<"a">>]

DcLineN == [raw |-> <<"n">>, plain |-> <<"n">>]

DcLineBR == [raw |-> <<" ", "b", "<", "B", "R", ">", "c", " ">>,
             plain |-> <<"b", "\n", "c">>]

DcLineSpace == [raw |-> <<" ">>, plain |-> <<>>]

DcLineOnlyBR == [raw |-> <<"<", "B", "R", ">">>, plain |-> <<>>]

DcLineHash == [raw |-> <<"#">>, plain |-> <<"#">>]

DcLineZeros == [raw |-> <<"0", "0">>, plain |-> <<"0", "0">>]

\* payloads of no line, one line, two lines
DcPayloads ==
    { <<>>,
      <<DcLineA>>, <<DcLineBR>>, <<DcLineSpace>>, <<DcLineHash>>, <<DcLineOnlyBR>>,
      <<DcLineN, DcLineA>>, <<DcLineSpace, DcLineA>>, <<DcLineA, DcLineSpace>>,
      <<DcLineHash, DcLineHash>>, <<DcLineBR, DcLineZeros>> }

\* the blank lines before the payload, and the run of "0" and blank lines
\* that ends the block
DcShapes ==
    { [blanks |-> 0, trailing |-> <<Zero>>],
      [blanks |-> 1, trailing |-> <<Zero, <<>>, Zero, Zero>>] }

DcBlockKinds ==
    { [payload |-> p, blanks |-> sh.blanks, trailing |-> sh.trailing] :
        p \in DcPayloads, sh \in DcShapes }

DcTitle == <<"A", "b", " ", "-", " ", "C", "d">>

DcPath == <<"/", "A", "b", ".", "e", "p", "u", "b">>

DcIdDigits == <<"1", "2", "3", "4", "5", "6", "7", "8", "9">>

\* the lines of the k-th block of a file
DcBlockLines(b, k) ==
    <<Hash, <<DcIdDigits[k]>>, DcTitle, DcPath, toLowerCase(DcPath), <<"3">>, Zero,
      <<"1", "2">>, <<"5">>, <<"-", "2", "5", "6">>, <<"1", "7">>>>
    \o [j \in 1..b.blanks |-> <<>>]
    \o [j \in 1..Len(b.payload) |-> b.payload[j].raw]
    \o b.trailing

RECURSIVE DcAllLines(_, _)
DcAllLines(blocks, k) ==
    IF k > Len(blocks) THEN <<>>
    ELSE DcBlockLines(blocks[k], k) \o DcAllLines(blocks, k + 1)

\* lines.join("\n")
RECURSIVE DcJoin(_)
DcJoin(lines) ==
    IF lines = <<>> THEN <<>>
    ELSE IF Len(lines) = 1 THEN lines[1]
    ELSE lines[1] \o <<"\n">> \o DcJoin(Tail(lines))

\* a file's name, the lines before its first block, the lines after its last
DcFiles ==
    { [filename |-> <<"A", "b", " ", "-", " ", "C", "d">> \o EpubAn,
       preamble |-> <<>>, tail |-> <<>>],
      [filename |-> <<"A", "b">> \o PdfAn,
       preamble |-> << <<"#", "x">>, <<>> >>, tail |-> << <<>> >>],
      [filename |-> <<"A", "b", " ", "-", " ", "C", "d">> \o EpubAn,
       preamble |-> << Zero >>, tail |-> << <<>> >>] }

DcInit ==
    /\ \E n \in 0..MaxBlocks : dcBlocks \in [1..n -> DcBlockKinds]
    /\ \E f \in DcFiles, ok \in BOOLEAN :
        /\ dcFilename = f.filename
        /\ dcData = [ok |-> ok,
                     text |-> IF ok
                              THEN DcJoin(f.preamble \o DcAllLines(dcBlocks, 1) \o f.tail)
                              ELSE <<>>]
        /\ (~ok => dcBlocks = <<>> /\ f.preamble = <<>>)
    /\ dcResult = Null
    /\ dcPc = "parse"

DcParse ==
    /\ dcPc = "parse"
    /\ dcResult' = parseAnnotationFile(dcData, dcFilename)
    /\ dcPc' = "done"
    /\ UNCHANGED <<dcData, dcFilename, dcBlocks, notDc>>

DcNext == DcParse

InitDec == DcInit /\ FsIdle /\ PoIdle /\ SyIdle /\ RestIdle

SpecDec == InitDec /\ [][DcNext]_vars

-----------------------------------------------------------------------------
(* Claims about parseAnnotationFile, under SpecDec *)

\* what a block's payload is to be read as
DcText(b) ==
    IF Len(b.payload) = 2 THEN b.payload[2].plain
    ELSE IF Len(b.payload) = 1 THEN b.payload[1].plain
    ELSE <<>>

DcNote(b) == IF Len(b.payload) = 2 THEN b.payload[1].plain ELSE <<>>

\* the positions in the file of the blocks whose text is not empty, in order
RECURSIVE DcKept(_, _)
DcKept(blocks, k) ==
    IF k > Len(blocks) THEN <<>>
    ELSE (IF DcText(blocks[k]) # <<>> THEN <<k>> ELSE <<>>) \o DcKept(blocks, k + 1)

\* C9: for a well-formed file (preamble, then blocks of a "#" line, ten field
\* lines, a payload of at most two lines, and a run of trailing "0" lines),
\* parseAnnotationFile returns one record for each block whose text is not
\* empty once trimmed, in the order of the file; a payload of two lines gives
\* note = the first and text = the second (both with <BR> as a line break and
\* trimmed), a payload of one line gives text = that line and an empty note.
C9_DecoderRoundTrip ==
    (dcPc = "done" /\ dcData.ok) =>
        /\ ~IsNull(dcResult)
        /\ LET highlights == Val(dcResult).highlights
               kept == DcKept(dcBlocks, 1)
           IN  /\ Len(highlights) = Len(kept)
               /\ \A j \in 1..Len(kept) :
                    /\ highlights[j].id = <<DcIdDigits[kept[j]]>>
                    /\ highlights[j].originalText = DcText(dcBlocks[kept[j]])
                    /\ highlights[j].note = DcNote(dcBlocks[kept[j]])

\* a file of two blocks, the first with a note and a text, the second with a
\* text only, has been decoded into two records
C9_Witness ==
    /\ dcPc = "done"
    /\ dcData.ok
    /\ Len(dcBlocks) = 2
    /\ Len(dcBlocks[1].payload) = 2
    /\ Len(dcBlocks[2].payload) = 1
    /\ ~IsNull(dcResult)
    /\ Len(Val(dcResult).highlights) = 2
    /\ Val(dcResult).highlights[1].note # <<>>
    /\ Val(dcResult).highlights[2].note = <<>>

-----------------------------------------------------------------------------
(* Text and numbers of the document synchronizer *)

\* parts.join(sep)
RECURSIVE joinFrom(_, _, _, _)
joinFrom(parts, sep, i, acc) ==
    IF i > Len(parts) THEN acc
    ELSE LET next == IF i = 1 THEN parts[1] ELSE acc \o sep \o parts[i]
         IN  IF Len(next) >= Len(acc) THEN joinFrom(parts, sep, i + 1, next) ELSE next

\* lines.join("\n")
joinLines(lines) == joinFrom(lines, <<"\n">>, 1, <<>>)

\* s.includes(pat)
includes(s, pat) == indexOf(s, pat, 1) # 0

DigitValue(c) ==
    CASE c = "0" -> 0 [] c = "1" -> 1 [] c = "2" -> 2 [] c = "3" -> 3 [] c = "4" -> 4
      [] c = "5" -> 5 [] c = "6" -> 6 [] c = "7" -> 7 [] c = "8" -> 8 [] c = "9" -> 9

DigitChar(n) == <<"0", "1", "2", "3", "4", "5", "6", "7", "8", "9">>[n + 1]

\* the number a run of digits spells
RECURSIVE toNatFrom(_, _, _)
toNatFrom(ds, i, acc) ==
    IF i > Len(ds) THEN acc ELSE toNatFrom(ds, i + 1, 10 * acc + DigitValue(ds[i]))

toNat(ds) == toNatFrom(ds, 1, 0)

\* String(n) for a number n >= 0
RECURSIVE toDigits(_)
toDigits(n) ==
    IF n < 10 THEN <<DigitChar(n)>> ELSE Append(toDigits(n \div 10), DigitChar(n % 10))

\* the value of what parseInt returned, for a result that is not NaN
numberOf(x) == IF x[1] = "-" THEN 0 - toNat(Tail(x)) ELSE toNat(x)

\* s.replace(/"/g, '\\"').replace(/\n/g, " ")
RECURSIVE escapeYaml(_)
escapeYaml(s) ==
    IF s = <<>> THEN <<>>
    ELSE (IF Head(s) = "\"" THEN <<"\\", "\"">>
          ELSE IF Head(s) = "\n" THEN <<" ">>
          ELSE <<Head(s)>>) \o escapeYaml(Tail(s))

-----------------------------------------------------------------------------
(* The cache directory reader: parseAnnotationFiles *)

\* a file of the cache directory is [name, data]; data is [ok, text] for an
\* annotation file and the content for a position file

\* the entry of a Map kept as a sequence of [key, data], 0 if the key is absent
RECURSIVE mapIndexFrom(_, _, _)
mapIndexFrom(map, key, i) ==
    IF i > Len(map) THEN 0
    ELSE IF map[i].key = key THEN i
    ELSE mapIndexFrom(map, key, i + 1)

mapIndex(map, key) == mapIndexFrom(map, key, 1)

\* the BookData of a title first met in an annotation file
newBookData(title, filename, author) ==
    [book |-> [title |-> title, filename |-> filename, author |-> author,
               description |-> <<>>, category |-> <<>>],
     highlights |-> <<>>,
     statistics |-> Null,
     progress |-> Null,
     currentChapter |-> Null,
     lastReadTimestamp |-> Null,
     coverPath |-> <<>>,
     fetchedDescription |-> <<>>,
     publishedDate |-> <<>>,
     publisher |-> <<>>,
     pageCount |-> Null,
     genres |-> Null,
     series |-> <<>>,
     isbn10 |-> <<>>,
     isbn13 |-> <<>>,
     language |-> <<>>]

\* bookDataMap after the highlights of a file were added under actualTitle
addHighlights(map, parsed, actualTitle, at) ==
    bind(IF at # 0 THEN map
         ELSE Append(map, [key |-> toLowerCase(actualTitle),
                           data |-> newBookData(actualTitle, parsed.highlights[1].filename,
                                                parsed.author)]),
         LAMBDA entries :
            [entries EXCEPT ![IF at # 0 THEN at ELSE Len(entries)].data.highlights =
                                @ \o parsed.highlights])

\* parsed.highlights[0]?.book || parsed.bookTitle
actualTitleOf(parsed) ==
    IF parsed.highlights[1].book # <<>> THEN parsed.highlights[1].book ELSE parsed.bookTitle

\* the body of the loop over the .an files, for one file
addAnnotationFile(map, file) ==
    bind(parseAnnotationFile(file.data, file.name), LAMBDA parsed :
        IF IsNull(parsed) \/ Val(parsed).highlights = <<>> THEN map
        ELSE addHighlights(map, Val(parsed), actualTitleOf(Val(parsed)),
                           mapIndex(map, toLowerCase(actualTitleOf(Val(parsed))))))

EpubPo == <<".", "e", "p", "u", "b", ".", "p", "o">>

PdfPo == <<".", "p", "d", "f", ".", "p", "o">>

\* s.replace(/_/g, " ")
underscoresToSpaces(s) == [i \in 1..Len(s) |-> IF s[i] = "_" THEN " " ELSE s[i]]

\* parts[0] || baseName and parts.slice(1).join(" - ") of baseName.split(" - "),
\* dash being where the first " - " is
firstPart(baseName, dash) ==
    IF dash = 0 \/ dash = 1 THEN baseName ELSE SubSeq(baseName, 1, dash - 1)

otherParts(baseName, dash) ==
    IF dash = 0 THEN <<>> ELSE SubSeq(baseName, dash + 3, Len(baseName))

\* the title a position file is filed under
progressTitle(part0) ==
    IF ~includes(part0, <<" ">>) /\ includes(part0, <<"_">>)
    THEN underscoresToSpaces(part0)
    ELSE part0

\* the merge in which a book keeps the position it has: the first file of
\* a key wins
setProgressOnce(map, bookTitle, baseName, author, progressData, at, trackBooksWithoutHighlights) ==
    IF at # 0
    THEN IF IsNull(progressData) \/ ~IsNull(map[at].data.progress) THEN map
         ELSE [map EXCEPT ![at].data.progress = Some(Val(progressData).progress),
                          ![at].data.currentChapter = Some(Val(progressData).chapter),
                          ![at].data.lastReadTimestamp =
                                Some(Val(progressData).timestamp)]
    ELSE IF trackBooksWithoutHighlights /\ ~IsNull(progressData)
    THEN Append(map,
           [key |-> toLowerCase(bookTitle),
            data |-> [newBookData(bookTitle, baseName, author) EXCEPT
                        !.progress = Some(Val(progressData).progress),
                        !.currentChapter = Some(Val(progressData).chapter),
                        !.lastReadTimestamp = Some(Val(progressData).timestamp)]])
    ELSE map

\* if (bookDataMap.has(key)) { ... } else if (trackBooksWithoutHighlights ...) { ... }
setProgress(map, bookTitle, baseName, author, progressData, at, trackBooksWithoutHighlights) ==
    IF at # 0
    THEN IF IsNull(progressData) THEN map
         ELSE [map EXCEPT ![at].data.progress = Some(Val(progressData).progress),
                          ![at].data.currentChapter = Some(Val(progressData).chapter),
                          ![at].data.lastReadTimestamp =
                                Some(Val(progressData).timestamp)]
    ELSE IF trackBooksWithoutHighlights /\ ~IsNull(progressData)
    THEN Append(map,
           [key |-> toLowerCase(bookTitle),
            data |-> [newBookData(bookTitle, baseName, author) EXCEPT
                        !.progress = Some(Val(progressData).progress),
                        !.currentChapter = Some(Val(progressData).chapter),
                        !.lastReadTimestamp = Some(Val(progressData).timestamp)]])
    ELSE map

\* the body of the loop over the .po files, for one file
addProgressFile(map, file, trackBooksWithoutHighlights) ==
    bind(dropSuffix(dropSuffix(file.name, EpubPo), PdfPo), LAMBDA baseName :
        bind(indexOf(baseName, Dash, 1), LAMBDA dash :
            bind(progressTitle(firstPart(baseName, dash)), LAMBDA bookTitle :
                setProgress(map, bookTitle, baseName, otherParts(baseName, dash),
                            parseProgressFile(file.data),
                            mapIndex(map, toLowerCase(bookTitle)),
                            trackBooksWithoutHighlights))))

DotAn == <<".", "a", "n">>

DotPo == <<".", "p", "o">>

RECURSIVE readAnnotationFiles(_, _, _)
readAnnotationFiles(files, i, map) ==
    IF i > Len(files) THEN map
    ELSE readAnnotationFiles(files, i + 1,
                             IF endsWith(files[i].name, DotAn)
                             THEN addAnnotationFile(map, files[i])
                             ELSE map)

RECURSIVE readProgressFiles(_, _, _, _)
readProgressFiles(files, i, map, trackBooksWithoutHighlights) ==
    IF i > Len(files) THEN map
    ELSE readProgressFiles(files, i + 1,
                           IF endsWith(files[i].name, DotPo)
                           THEN addProgressFile(map, files[i], trackBooksWithoutHighlights)
                           ELSE map,
                           trackBooksWithoutHighlights)

\* a.position - b.position, 0 where it is NaN
comparePosition(a, b) ==
    IF a.position = NaN \/ b.position = NaN THEN 0
    ELSE numberOf(a.position) - numberOf(b.position)

\* highlights.sort((a, b) => a.position - b.position): a stable sort
RECURSIVE insertByPosition(_, _)
insertByPosition(sorted, h) ==
    IF sorted = <<>> THEN <<h>>
    ELSE IF comparePosition(sorted[Len(sorted)], h) <= 0 THEN Append(sorted, h)
    ELSE Append(insertByPosition(SubSeq(sorted, 1, Len(sorted) - 1), h),
                sorted[Len(sorted)])

RECURSIVE sortByPosition(_, _, _)
sortByPosition(highlights, i, sorted) ==
    IF i > Len(highlights) THEN sorted
    ELSE sortByPosition(highlights, i + 1, insertByPosition(sorted, highlights[i]))

\* Array.from(bookDataMap.values()), the highlights of each book sorted
sortedBooks(map) ==
    [k \in 1..Len(map) |->
        [map[k].data EXCEPT !.highlights = sortByPosition(map[k].data.highlights, 1, <<>>)]]

\* files: the cache directory as readdir lists it; a directory that cannot
\* be read is Null.  Returns the BookData of the directory, in Map order.
parseAnnotationFiles(files, trackBooksWithoutHighlights) ==
    IF IsNull(files) THEN <<>>
    ELSE sortedBooks(readProgressFiles(Val(files), 1,
                                       readAnnotationFiles(Val(files), 1, <<>>),
                                       trackBooksWithoutHighlights))

-----------------------------------------------------------------------------
(* Reading a stored document: parseFrontmatter *)

Fence == <<"-", "-", "-">>

\* content.match(/^---\n([\s\S]*?)\n---/) on the lines of content: the line
\* whose first three characters close the header, 0 when there is no match
RECURSIVE closingFenceFrom(_, _)
closingFenceFrom(lines, k) ==
    IF k > Len(lines) THEN 0
    ELSE IF startsWith(lines[k], Fence) THEN k
    ELSE closingFenceFrom(lines, k + 1)

closingFence(lines) ==
    IF Len(lines) >= 3 /\ lines[1] = Fence THEN closingFenceFrom(lines, 3) ELSE 0

\* the first of lines[from..to] that starts with key, 0 if none
RECURSIVE keyLineFrom(_, _, _, _)
keyLineFrom(lines, key, from, to) ==
    IF from > to THEN 0
    ELSE IF startsWith(lines[from], key) THEN from
    ELSE keyLineFrom(lines, key, from + 1, to)

\* what follows "key:" on the header line of that key, trimmed; <<>> if absent
headerValue(lines, key) ==
    LET close == closingFence(lines)
        at == IF close = 0 THEN 0 ELSE keyLineFrom(lines, key, 2, close - 1)
    IN  IF at = 0 THEN <<>> ELSE trim(SubSeq(lines[at], Len(key) + 1, Len(lines[at])))

\* a value without the double quotes around it
unquote(v) ==
    IF Len(v) >= 2 /\ v[1] = "\"" /\ v[Len(v)] = "\"" THEN SubSeq(v, 2, Len(v) - 1) ELSE v

\* "?(\d+(?:\.\d+)?) at the start of v: the number, Null if there is none
leadingNumber(v) ==
    LET from == IF v # <<>> /\ v[1] = "\"" THEN 2 ELSE 1
        e1 == digitsEnd(v, from)
        e2 == IF charAt(v, e1, ".") THEN digitsEnd(v, e1 + 1) ELSE e1
    IN  IF e1 = from THEN Null
        ELSE IF charAt(v, e1, ".") /\ e2 > e1 + 1
        THEN Some(parseFloatDigits(SubSeq(v, from, e1 - 1), SubSeq(v, e1 + 1, e2 - 1)))
        ELSE Some(parseFloatDigits(SubSeq(v, from, e1 - 1), <<>>))

\* (\d+) at the start of v: the count, Null if there is none
leadingCount(v) ==
    IF digitsEnd(v, 1) = 1 THEN Null ELSE Some(toNat(SubSeq(v, 1, digitsEnd(v, 1) - 1)))

KeyTitle == <<"t", "i", "t", "l", "e", ":">>

KeyAuthor == <<"a", "u", "t", "h", "o", "r", ":">>

KeyProgress == <<"p", "r", "o", "g", "r", "e", "s", "s", ":">>

KeyCurrentChapter == <<"c", "u", "r", "r", "e", "n", "t", "_", "c", "h", "a", "p", "t", "e",
      "r", ":">>

KeyLastRead == <<"l", "a", "s", "t", "_", "r", "e", "a", "d", ":">>

KeyLastSynced == <<"l", "a", "s", "t", "_", "s", "y", "n", "c", "e", "d", ":">>

KeyMoonReaderPath == <<"m", "o", "o", "n", "_", "r", "e", "a", "d", "e", "r", "_", "p", "a",
      "t", "h", ":">>

KeyHighlightsCount == <<"h", "i", "g", "h", "l", "i", "g", "h", "t", "s", "_", "c", "o", "u",
      "n", "t", ":">>

KeyHighlightsHash == <<"h", "i", "g", "h", "l", "i", "g", "h", "t", "s", "_", "h", "a", "s",
      "h", ":">>

KeyNotesCount == <<"n", "o", "t", "e", "s", "_", "c", "o", "u", "n", "t", ":">>

KeyManualNote == <<"m", "a", "n", "u", "a", "l", "_", "n", "o", "t", "e", ":">>

KeyCustomMetadata == <<"c", "u", "s", "t", "o", "m", "_", "m", "e", "t", "a", "d", "a", "t",
      "a", ":">>

KeyPublishedDate == <<"p", "u", "b", "l", "i", "s", "h", "e", "d", "_", "d", "a", "t", "e",
      ":">>

KeyPublisher == <<"p", "u", "b", "l", "i", "s", "h", "e", "r", ":">>

KeyPageCount == <<"p", "a", "g", "e", "_", "c", "o", "u", "n", "t", ":">>

KeyGenres == <<"g", "e", "n", "r", "e", "s", ":">>

KeySeries == <<"s", "e", "r", "i", "e", "s", ":">>

KeyLanguage == <<"l", "a", "n", "g", "u", "a", "g", "e", ":">>

KeyCover == <<"c", "o", "v", "e", "r", ":">>

True == <<"t", "r", "u", "e">>

\* the header fields of a stored document
parseFrontmatter(content) ==
    LET lines == splitLines(content)
    IN  [title |-> unquote(headerValue(lines, KeyTitle)),
         author |-> unquote(headerValue(lines, KeyAuthor)),
         progress |-> leadingNumber(headerValue(lines, KeyProgress)),
         highlightsCount |-> leadingCount(headerValue(lines, KeyHighlightsCount)),
         highlightsHash |-> unquote(headerValue(lines, KeyHighlightsHash)),
         lastRead |-> unquote(headerValue(lines, KeyLastRead)),
         lastSynced |-> unquote(headerValue(lines, KeyLastSynced)),
         coverPath |-> unquote(headerValue(lines, KeyCover)),
         moonReaderPath |-> unquote(headerValue(lines, KeyMoonReaderPath)),
         isManualNote |-> startsWith(headerValue(lines, KeyManualNote), True),
         hasCustomMetadata |-> startsWith(headerValue(lines, KeyCustomMetadata), True)]

\* a text as it stands in the digest: the characters that would end the
\* header line or its quoted value are replaced
digestText(text) ==
    [i \in 1..Len(text) |-> IF text[i] \in {"\"", "\\", "\n", "\r"} THEN "_" ELSE text[i]]

\* a deterministic digest of the highlight set: of each highlight, in order,
\* its id, its text and its note
RECURSIVE computeHighlightsHashFrom(_, _)
computeHighlightsHashFrom(highlights, i) ==
    IF i > Len(highlights) THEN <<>>
    ELSE <<"h">> \o highlights[i].id
         \o <<"t">> \o digestText(highlights[i].originalText)
         \o <<"n">> \o digestText(highlights[i].note)
         \o computeHighlightsHashFrom(highlights, i + 1)

computeHighlightsHash(highlights) == <<"x">> \o computeHighlightsHashFrom(highlights, 1)

-----------------------------------------------------------------------------
(* The document renderer: generateBookNote, formatHighlight *)

\* n & 0xff of n >> shift, for a 32-bit integer n
byteOf(n, shift) == (n \div shift) % 256

getCalloutType(colorInt) ==
    LET r == byteOf(colorInt, 65536)
        g == byteOf(colorInt, 256)
        b == byteOf(colorInt, 1)
    IN  IF r > 200 /\ g > 200 /\ b < 100 THEN <<"q", "u", "o", "t", "e">>
        ELSE IF b > r /\ b > g /\ b > 150 THEN <<"i", "n", "f", "o">>
        ELSE IF g > r /\ g > b /\ g > 150 THEN <<"t", "i", "p">>
        ELSE IF r > g /\ r > b /\ r > 150 THEN <<"w", "a", "r", "n", "i", "n", "g">>
        ELSE IF r > 200 /\ g > 100 /\ g < 200 /\ b < 100 THEN <<"w", "a", "r", "n", "i", "n",
              "g">>
        ELSE <<"q", "u", "o", "t", "e">>

\* the character U+2022
Bullet == "U+2022"

\* date.toLocaleDateString("en-US", ...) of a timestamp of the first day of
\* the epoch, which is where the highlights of the model are taken
formatDate(timestamp) == <<"J", "a", "n", " ", "1", ",", " ", "1", "9", "7", "0">>

\* a number that is neither 0 nor NaN
truthyNumber(x) == x # NaN /\ x # Zero

\* each line of text behind "> "
quoteLines(lines) == [i \in 1..Len(lines) |-> <<">", " ">> \o lines[i]]

\* the lines of the callout of one highlight; showNotes is false when the
\* caller leaves it out
formatHighlight(highlight, useColors, showNotes) ==
    LET calloutType == IF useColors /\ highlight.highlightColor # NaN
                       THEN getCalloutType(numberOf(highlight.highlightColor))
                       ELSE <<"q", "u", "o", "t", "e">>
        dateStr == IF truthyNumber(highlight.timestamp)
                   THEN formatDate(highlight.timestamp) ELSE <<>>
        chapterStr == IF highlight.chapter # NaN /\ numberOf(highlight.chapter) > 0
                      THEN <<"C", "h", "a", "p", "t", "e", "r",
                            " ">> \o highlight.chapter ELSE <<>>
        header == IF chapterStr # <<>> /\ dateStr # <<>>
                  THEN chapterStr \o <<" ", Bullet, " ">> \o dateStr
                  ELSE chapterStr \o dateStr
        opening == IF header # <<>> THEN <<">", " ", "[", "!">> \o calloutType \o <<"]",
              " ">> \o header
                   ELSE <<">", " ", "[", "!">> \o calloutType \o <<"]">>
        text == IF highlight.originalText # <<>>
                THEN quoteLines(splitLines(trim(highlight.originalText)))
                ELSE <<>>
        note == IF showNotes /\ trim(highlight.note) # <<>>
                THEN <<<<">">>, <<">", " ", "-", "-", "-">>, <<">", " ", "*", "*", "N", "o",
                      "t", "e", ":", "*", "*", " ">> \o trim(highlight.note)>>
                ELSE <<>>
    IN  joinLines(<<opening>> \o text \o note)

\* progress.toFixed(1) of [int, frac]; a second decimal of 5 or more rounds up
toFixed1(progress) ==
    IF Len(progress.frac) = 0 THEN progress.int \o <<".", "0">>
    ELSE IF Len(progress.frac) = 1 \/ DigitValue(progress.frac[2]) < 5
    THEN progress.int \o <<".">> \o <<progress.frac[1]>>
    ELSE IF progress.frac[1] # "9"
    THEN progress.int \o <<".">> \o <<DigitChar(DigitValue(progress.frac[1]) + 1)>>
    ELSE toDigits(toNat(progress.int) + 1) \o <<".", "0">>

\* how many highlights carry a note that is not blank
RECURSIVE notesCountFrom(_, _)
notesCountFrom(highlights, i) ==
    IF i > Len(highlights) THEN 0
    ELSE (IF trim(highlights[i].note) # <<>> THEN 1 ELSE 0)
         + notesCountFrom(highlights, i + 1)

notesCount(highlights) == notesCountFrom(highlights, 1)

\* one `  - "genre"` line for each genre
genreLines(genres) == [i \in 1..Len(genres) |-> <<" ", " ", "-", " ",
      "\"">> \o escapeYaml(genres[i]) \o <<"\"">>]

\* `key "value"`, or nothing when the value is empty
quotedLine(key, value) ==
    IF value # <<>> THEN <<key \o <<" ", "\"">> \o value \o <<"\"">>>> ELSE <<>>

\* new Date(timestamp).toISOString().split("T")[0] for the timestamps the
\* position files of the model carry
isoDate(timestamp) ==
    IF timestamp = <<"1", "7", "0", "0", "0", "0", "0", "0", "0", "0", "0", "0",
          "0">> THEN <<"2", "0", "2", "3", "-", "1", "1", "-", "1", "4">>
    ELSE IF timestamp = <<"1", "7", "0", "0", "1", "0", "0", "0", "0", "0", "0", "0",
          "0">> THEN <<"2", "0", "2", "3", "-", "1", "1", "-", "1", "6">>
    ELSE <<"1", "9", "7", "0", "-", "0", "1", "-", "0", "1">>

PlaceholderTitle == <<">", " ", "[", "!", "m", "o", "o", "n", "s", "y", "n", "c", "-", "u",
      "s", "e", "r", "-", "n", "o", "t", "e", "s", "]", "+", " ", "Y", "o", "u", "r", " ",
            "n", "o", "t", "e", "s">>

PlaceholderText ==
    <<">", " ", "A", "d", "d", " ", "y", "o", "u", "r", " ", "t", "h", "o", "u", "g", "h",
          "t", "s", ",", " ", "a", "n", "a", "l", "y", "s", "i", "s", ",", " ", "a", "n", "d",
                " ", "n", "o", "t", "e", "s", " ", "h", "e", "r", "e", ".", " ", "T", "h",
                      "i", "s", " ", "s", "e", "c", "t", "i", "o", "n", " ", "i", "s", " ",
                            "p", "r", "e", "s", "e", "r", "v", "e", "d", " ", "a", "c", "r",
                                  "o", "s", "s", " ", "s", "y", "n", "c", "s", ".">>

MyNotesHeading == <<"#", "#", " ", "M", "y", " ", "N", "o", "t", "e", "s">>

\* the free-form section of a fresh document
myNotesSection == <<MyNotesHeading, PlaceholderTitle, PlaceholderText, <<>>>>

\* the header line of the digest of the highlights
highlightsHashLine(highlights) ==
    <<KeyHighlightsHash \o <<" ", "\"">> \o computeHighlightsHash(highlights) \o <<"\"">>>>

\* the header line of the day the book was last read
lastReadLine(lastReadTimestamp) ==
    IF IsNull(lastReadTimestamp) THEN <<>>
    ELSE <<KeyLastRead \o <<" ">> \o isoDate(Val(lastReadTimestamp))>>

\* the lines of the callouts of the highlights, a blank line after each
RECURSIVE highlightLines(_, _, _, _)
highlightLines(highlights, i, useColors, showNotes) ==
    IF i > Len(highlights) THEN <<>>
    ELSE <<formatHighlight(highlights[i], useColors, showNotes), <<>>>>
         \o highlightLines(highlights, i + 1, useColors, showNotes)

\* today is new Date().toISOString().split("T")[0].  The category and the
\* reading time have no line: the cache directory reader leaves both empty.
generateBookNote(bookData, settings, today) ==
    LET book == bookData.book
        progress == bookData.progress
        currentChapter == bookData.currentChapter
        description == IF bookData.fetchedDescription # <<>>
                       THEN bookData.fetchedDescription ELSE book.description
        frontmatter ==
            <<Fence, KeyTitle \o <<" ", "\"">> \o escapeYaml(book.title) \o <<"\"">>>>
            \o quotedLine(KeyAuthor, escapeYaml(book.author))
            \o (IF ~IsNull(progress)
                THEN <<KeyProgress \o <<" ">> \o toFixed1(Val(progress)) \o <<"%">>>> ELSE <<>>)
            \o (IF ~IsNull(currentChapter)
                THEN <<KeyCurrentChapter \o <<" ">> \o Val(currentChapter)>> ELSE <<>>)
            \o lastReadLine(bookData.lastReadTimestamp)
            \o <<KeyLastSynced \o <<" ">> \o today,
                 KeyMoonReaderPath \o <<" ", "\"">> \o escapeYaml(book.filename) \o <<"\"">>,
                 KeyHighlightsCount \o <<" ">> \o toDigits(Len(bookData.highlights))>>
            \o highlightsHashLine(bookData.highlights)
            \o <<KeyNotesCount \o <<" ">> \o toDigits(notesCount(bookData.highlights))>>
            \o quotedLine(KeyPublishedDate, escapeYaml(bookData.publishedDate))
            \o quotedLine(KeyPublisher, escapeYaml(bookData.publisher))
            \o (IF ~IsNull(bookData.pageCount)
                THEN <<KeyPageCount \o <<" ">> \o Val(bookData.pageCount)>> ELSE <<>>)
            \o (IF ~IsNull(bookData.genres) /\ Val(bookData.genres) # <<>>
                THEN <<KeyGenres>> \o genreLines(Val(bookData.genres)) ELSE <<>>)
            \o quotedLine(KeySeries, escapeYaml(bookData.series))
            \o quotedLine(<<"i", "s", "b", "n", "_", "1", "0", ":">>, bookData.isbn10)
            \o quotedLine(<<"i", "s", "b", "n", "_", "1", "3", ":">>, bookData.isbn13)
            \o quotedLine(KeyLanguage, bookData.language)
            \o quotedLine(KeyCover, bookData.coverPath)
            \o <<Fence>>
        heading ==
            <<<<"#", " ">> \o book.title>>
            \o (IF book.author # <<>> THEN <<<<"*", "*", "A", "u", "t", "h", "o", "r", ":",
                  "*", "*", " ">> \o book.author>> ELSE <<>>)
            \o << <<>> >>
            \o (IF bookData.coverPath # <<>>
                THEN <<<<"!", "[", "[">> \o bookData.coverPath \o <<"|", "2", "0", "0", "]",
                      "]">>, <<>>>> ELSE <<>>)
        reading ==
            IF settings.showReadingProgress /\ (~IsNull(progress) \/ ~IsNull(currentChapter))
            THEN <<<<"#", "#", " ", "R", "e", "a", "d", "i", "n", "g", " ", "P", "r", "o",
                  "g", "r", "e", "s", "s">>>>
                 \o (IF ~IsNull(progress)
                     THEN <<<<"-", " ", "*", "*", "P", "r", "o", "g", "r", "e", "s", "s", ":",
                           "*", "*", " ">> \o toFixed1(Val(progress)) \o <<"%">>>>
                     ELSE <<>>)
                 \o (IF ~IsNull(currentChapter)
                     THEN <<<<"-", " ", "*", "*", "C", "h", "a", "p", "t", "e", "r", ":", "*",
                           "*", " ">> \o Val(currentChapter)>> ELSE <<>>)
                 \o << <<>> >>
            ELSE <<>>
        about ==
            IF settings.showDescription /\ trim(description) # <<>>
            THEN <<<<"#", "#", " ", "D", "e", "s", "c", "r", "i", "p", "t", "i", "o",
                  "n">>, trim(description), <<>>>>
            ELSE <<>>
        highlights ==
            IF bookData.highlights # <<>>
            THEN <<<<"#", "#", " ", "H", "i", "g", "h", "l", "i", "g", "h", "t", "s">>, <<>>>>
                 \o highlightLines(bookData.highlights, 1, settings.showHighlightColors,
                                   settings.showNotes)
            ELSE <<>>
    IN  joinLines(frontmatter \o heading \o reading \o about \o myNotesSection
                  \o highlights)

-----------------------------------------------------------------------------
(* Merging into a stored document *)

\* the smaller of two indexes, 0 standing for "not found"
firstFound(a, b) == IF a = 0 THEN b ELSE IF b = 0 THEN a ELSE Min2(a, b)

\* content.match(/\n## My [Nn]otes\n([\s\S]*?)(?=\n## |\n---|\s*$)/): Null,
\* or the captured text
myNotesMatch(content) ==
    LET at == firstFound(indexOf(content, <<"\n", "#", "#", " ", "M", "y", " ", "n", "o", "t",
          "e", "s", "\n">>, 1),
                         indexOf(content, <<"\n", "#", "#", " ", "M", "y", " ", "N", "o", "t",
                               "e", "s", "\n">>, 1))
        start == at + 13
        heading == indexOf(content, <<"\n", "#", "#", " ">>, start)
        rule == indexOf(content, <<"\n", "-", "-", "-">>, start)
        blank == start + Len(trimEnd(SubSeq(content, start, Len(content))))
        end == firstFound(firstFound(heading, rule), blank)
    IN  IF at = 0 THEN Null ELSE Some(SubSeq(content, start, end - 1))

\* section.replace(/^> \[!moonsync-user-notes\]\+ Your [Nn]otes\n> Add your
\* thoughts, analysis, and notes here\. This section is preserved across
\* syncs\.\n?/, "")
removePlaceholder(section) ==
    LET lower == <<">", " ", "[", "!", "m", "o", "o", "n", "s", "y", "n", "c", "-", "u", "s",
          "e", "r", "-", "n", "o", "t", "e", "s", "]", "+", " ", "Y", "o", "u", "r", " ", "n",
                "o", "t", "e", "s", "\n">> \o PlaceholderText
        upper == <<">", " ", "[", "!", "m", "o", "o", "n", "s", "y", "n", "c", "-", "u", "s",
              "e", "r", "-", "n", "o", "t", "e", "s", "]", "+", " ", "Y", "o", "u", "r", " ",
                    "N", "o", "t", "e", "s", "\n">> \o PlaceholderText
        n == Len(lower)
    IN  IF startsWith(section, lower) \/ startsWith(section, upper)
        THEN IF charAt(section, n + 1, "\n")
             THEN SubSeq(section, n + 2, Len(section))
             ELSE SubSeq(section, n + 1, Len(section))
        ELSE section

hasUserNotes(content) ==
    LET myNotes == myNotesMatch(content)
    IN  IF IsNull(myNotes) THEN FALSE
        ELSE trim(removePlaceholder(trim(Val(myNotes)))) # <<>>

\* the replacement text of String.prototype.replace with its $ patterns
\* filled in: $$ is "$", $& the matched text, $` the text before the match,
\* $' the text after it
RECURSIVE expandReplacement(_, _, _, _)
expandReplacement(replacement, matched, before, after) ==
    IF replacement = <<>> THEN <<>>
    ELSE IF Head(replacement) = "$" /\ Len(replacement) >= 2
            /\ replacement[2] \in {"$", "&", "`", "'"}
    THEN (CASE replacement[2] = "$" -> <<"$">>
            [] replacement[2] = "&" -> matched
            [] replacement[2] = "`" -> before
            [] replacement[2] = "'" -> after)
         \o expandReplacement(SubSeq(replacement, 3, Len(replacement)),
                              matched, before, after)
    ELSE <<Head(replacement)>>
         \o expandReplacement(Tail(replacement), matched, before, after)

\* s.replace(pattern, replacement) for a pattern that is a string
replaceFirst(s, pattern, replacement) ==
    LET at == indexOf(s, pattern, 1)
        before == SubSeq(s, 1, at - 1)
        after == SubSeq(s, at + Len(pattern), Len(s))
    IN  IF at = 0 THEN s
        ELSE before \o expandReplacement(replacement, pattern, before, after) \o after

mergeExistingNoteWithHighlights(existingContent, bookData, settings, today) ==
    LET myNotes == myNotesMatch(existingContent)
        userNotesContent == IF IsNull(myNotes) THEN <<>>
                            ELSE trim(removePlaceholder(Val(myNotes)))
        freshNote == generateBookNote(bookData, settings, today)
        placeholderInFresh == PlaceholderTitle \o <<"\n">> \o PlaceholderText
    IN  IF userNotesContent # <<>>
        THEN replaceFirst(freshNote, placeholderInFresh, userNotesContent)
        ELSE freshNote

\* the header lines mergeManualNoteWithMoonReader writes anew
ManualSkippedKeys ==
    {KeyProgress, KeyCurrentChapter, KeyHighlightsCount, KeyHighlightsHash, KeyNotesCount,
     KeyLastSynced, KeyManualNote, KeyPublishedDate, KeyPublisher, KeyPageCount,
     KeyGenres, KeySeries, KeyLanguage}

keepManualLine(line) ==
    /\ \A key \in ManualSkippedKeys : ~startsWith(line, key)
    /\ ~startsWith(trim(line), <<"-">>)

\* settings.showProgress: the settings have no field of that name, so what
\* is read is undefined
showProgress(settings) == FALSE

\* the header fields fetched for a book, as header lines
fetchedLines(bookData) ==
    quotedLine(KeyPublishedDate, escapeYaml(bookData.publishedDate))
    \o quotedLine(KeyPublisher, escapeYaml(bookData.publisher))
    \o (IF ~IsNull(bookData.pageCount)
        THEN <<KeyPageCount \o <<" ">> \o Val(bookData.pageCount)>> ELSE <<>>)
    \o (IF ~IsNull(bookData.genres) /\ Val(bookData.genres) # <<>>
        THEN <<KeyGenres>> \o genreLines(Val(bookData.genres)) ELSE <<>>)
    \o quotedLine(KeySeries, escapeYaml(bookData.series))
    \o quotedLine(KeyLanguage, bookData.language)

mergeManualNoteWithMoonReader(existingContent, bookData, settings, today) ==
    LET existing == splitLines(existingContent)
        close == closingFence(existing)
        contentAfterFrontmatter ==
            IF close = 0 THEN trim(existingContent)
            ELSE trim(joinLines(<<SubSeq(existing[close], 4, Len(existing[close]))>>
                                \o SubSeq(existing, close + 1, Len(existing))))
        kept == IF close = 0 THEN <<>>
                ELSE SelectSeq(SubSeq(existing, 2, close - 1), keepManualLine)
        progress == bookData.progress
        currentChapter == bookData.currentChapter
        frontmatter ==
            <<Fence>> \o kept
            \o <<KeyLastSynced \o <<" ">> \o today,
                 KeyHighlightsCount \o <<" ">> \o toDigits(Len(bookData.highlights))>>
            \o highlightsHashLine(bookData.highlights)
            \o <<KeyNotesCount \o <<" ">> \o toDigits(notesCount(bookData.highlights))>>
            \o (IF showProgress(settings) /\ ~IsNull(progress)
                THEN <<KeyProgress \o <<" ", "\"">> \o toFixed1(Val(progress)) \o <<"%",
                      "\"">>>>
                     \o (IF ~IsNull(currentChapter) /\ truthyNumber(Val(currentChapter))
                         THEN <<KeyCurrentChapter \o <<" ">> \o Val(currentChapter)>>
                         ELSE <<>>)
                ELSE <<>>)
            \o fetchedLines(bookData)
            \o <<Fence, <<>>>>
        reading ==
            IF settings.showReadingProgress /\ (~IsNull(progress) \/ ~IsNull(currentChapter))
            THEN <<<<"*", "*", "R", "e", "a", "d", "i", "n", "g", " ", "p", "r", "o", "g",
                  "r", "e", "s", "s", ":", "*", "*">>>>
                 \o (IF ~IsNull(progress)
                     THEN <<<<"-", " ", "P", "r", "o", "g", "r", "e", "s", "s", ":",
                           " ">> \o toFixed1(Val(progress)) \o <<"%">>>> ELSE <<>>)
                 \o (IF ~IsNull(currentChapter)
                     THEN <<<<"-", " ", "C", "h", "a", "p", "t", "e", "r", ":",
                           " ">> \o Val(currentChapter)>> ELSE <<>>)
                 \o << <<>> >>
            ELSE <<>>
    IN  joinLines(frontmatter
                  \o <<contentAfterFrontmatter, <<>>, <<"#", "#", " ", "M", "o", "o", "n",
                        " ", "R", "e", "a", "d", "e", "r", " ", "h", "i", "g", "h", "l", "i",
                              "g", "h", "t", "s">>, <<>>>>
                  \o reading
                  \o highlightLines(bookData.highlights, 1, settings.showHighlightColors,
                                    FALSE))

-----------------------------------------------------------------------------
(* The metadata cache and what a lookup returns *)

\* `${title.toLowerCase()}|${author.toLowerCase()}`
getCacheKey(title, author) == toLowerCase(title) \o <<"|">> \o toLowerCase(author)

\* the cache is a function from keys to entries; an entry is a record that
\* holds the fields that were stored, and no others
getCachedInfo(cache, title, author) ==
    IF getCacheKey(title, author) \in DOMAIN cache
    THEN Some(cache[getCacheKey(title, author)])
    ELSE Null

setCachedInfo(cache, title, author, info) ==
    [k \in DOMAIN cache \cup {getCacheKey(title, author)} |->
        IF k = getCacheKey(title, author) THEN info ELSE cache[k]]

\* the six fields whose presence says that the lookup has been made
AttemptedFields == {"publishedDate", "publisher", "pageCount", "genres", "series", "language"}

\* cachedInfo && (cachedInfo.publishedDate !== undefined && ...), for the
\* fields named
hasFields(cachedInfo, fields) ==
    ~IsNull(cachedInfo) /\ fields \subseteq DOMAIN Val(cachedInfo)

\* a text field of a cache entry, empty when the entry does not hold it
textField(entry, field) == IF field \in DOMAIN entry THEN entry[field] ELSE <<>>

Undefined == <<"u", "n", "d", "e", "f", "i", "n", "e", "d">>

\* a field of a cache entry that holds null (Null) or a value; a field the
\* entry does not hold reads as undefined, which is not null
nullableField(entry, field) ==
    IF field \in DOMAIN entry THEN entry[field] ELSE Some(Undefined)

\* the all-null result of a lookup that found nothing
NoBookInfo ==
    [title |-> <<>>, coverUrl |-> <<>>, description |-> <<>>, author |-> <<>>,
     source |-> <<>>, publishedDate |-> <<>>, publisher |-> <<>>, pageCount |-> Null,
     genres |-> Null, series |-> <<>>, language |-> <<>>]

\* the cache entry written for a lookup result
cacheEntryOf(title, bookInfo) ==
    [title |-> title,
     description |-> bookInfo.description,
     author |-> bookInfo.author,
     publishedDate |-> bookInfo.publishedDate,
     publisher |-> bookInfo.publisher,
     pageCount |-> bookInfo.pageCount,
     genres |-> bookInfo.genres,
     series |-> bookInfo.series,
     language |-> bookInfo.language]

\* if (cachedInfo) { ... }: the cached fields copied onto the BookData
useCachedInfo(bookData, entry) ==
    [bookData EXCEPT
        !.fetchedDescription = IF textField(entry, "description") # <<>>
                               THEN textField(entry, "description") ELSE @,
        !.book.author = IF @ = <<>> /\ textField(entry, "author") # <<>>
                        THEN textField(entry, "author") ELSE @,
        !.publishedDate = IF textField(entry, "publishedDate") # <<>>
                          THEN textField(entry, "publishedDate") ELSE @,
        !.publisher = IF textField(entry, "publisher") # <<>>
                      THEN textField(entry, "publisher") ELSE @,
        !.pageCount = IF ~IsNull(nullableField(entry, "pageCount"))
                      THEN nullableField(entry, "pageCount") ELSE @,
        !.genres = IF "genres" \in DOMAIN entry /\ ~IsNull(entry.genres)
                   THEN entry.genres ELSE @,
        !.series = IF textField(entry, "series") # <<>>
                   THEN textField(entry, "series") ELSE @,
        !.language = IF textField(entry, "language") # <<>>
                     THEN textField(entry, "language") ELSE @]

\* if (bookInfo) { ... }: the fetched fields copied onto the BookData
useBookInfo(bookData, bookInfo) ==
    [bookData EXCEPT
        !.fetchedDescription = IF bookInfo.description # <<>>
                               THEN bookInfo.description ELSE @,
        !.book.author = IF @ = <<>> /\ bookInfo.author # <<>> THEN bookInfo.author ELSE @,
        !.publishedDate = IF bookInfo.publishedDate # <<>>
                          THEN bookInfo.publishedDate ELSE @,
        !.publisher = IF bookInfo.publisher # <<>> THEN bookInfo.publisher ELSE @,
        !.pageCount = IF ~IsNull(bookInfo.pageCount) THEN bookInfo.pageCount ELSE @,
        !.genres = IF ~IsNull(bookInfo.genres) THEN bookInfo.genres ELSE @,
        !.series = IF bookInfo.series # <<>> THEN bookInfo.series ELSE @,
        !.language = IF bookInfo.language # <<>> THEN bookInfo.language ELSE @]

CoversFolder == <<"m", "o", "o", "n", "s", "y", "n", "c", "-", "c", "o", "v", "e", "r", "s",
      "/">>

DotJpg == <<".", "j", "p", "g">>

-----------------------------------------------------------------------------
(* The document synchronizer: processBook *)

\* Null when the file is absent or its header has no highlights_count
existingDataOf(parsed, content) ==
    IF IsNull(parsed.highlightsCount) THEN Null
    ELSE Some([highlightsCount |-> Val(parsed.highlightsCount),
               highlightsHash |-> parsed.highlightsHash,
               progress |-> parsed.progress,
               lastRead |-> parsed.lastRead,
               isManualNote |-> parsed.isManualNote,
               hasCustomMetadata |-> parsed.hasCustomMetadata,
               fullContent |-> content])

getExistingBookData(vault, filePath) ==
    IF filePath \notin DOMAIN vault THEN Null
    ELSE existingDataOf(parseFrontmatter(vault[filePath]), vault[filePath])

\* what processBook leaves behind: the store, the cache, the counters, what
\* it returned (cacheModified) or that it threw, and what it did to which
\* document ("created", "updated", "skipped", "deleted", "none", "failed")
outcomeOf(vault, covers, cache, result, cacheModified, did, path) ==
    [vault |-> vault, covers |-> covers, cache |-> cache, result |-> result,
     cacheModified |-> cacheModified, did |-> did, path |-> path]

\* the rendering and the writing at the end of processBook, of the BookData
\* as the cache and the lookup have completed it.  writeThrows: the store
\* fails the write
renderBook(vault, covers, cache, final, settings, result, today, filePath, existingData, fetched, writeThrows) ==
    bind(IF IsNull(existingData) THEN generateBookNote(final, settings, today)
         ELSE IF Val(existingData).isManualNote
         THEN mergeManualNoteWithMoonReader(Val(existingData).fullContent, final, settings,
                                            today)
         ELSE mergeExistingNoteWithHighlights(Val(existingData).fullContent, final,
                                              settings, today),
         LAMBDA markdown :
            \* adapter.write or vault.create fails
            IF writeThrows
            THEN outcomeOf(vault, covers, cache, result, FALSE, "failed", filePath)
            ELSE IF ~IsNull(existingData)
            THEN outcomeOf([vault EXCEPT ![filePath] = markdown], covers, cache,
                           [result EXCEPT !.booksUpdated = @ + 1], fetched, "updated",
                           filePath)
            ELSE IF filePath \in DOMAIN vault
            \* vault.create of a path that is taken throws
            THEN outcomeOf(vault, covers, cache, result, FALSE, "failed", filePath)
            ELSE outcomeOf(put(vault, filePath, markdown), covers, cache,
                           [result EXCEPT !.booksCreated = @ + 1], fetched, "created",
                           filePath))

\* if (bookInfo) { ... }, bookInfo being what the batch lookup holds for the
\* book as the cache has completed it (cached), and what follows it
fetchBook(vault, covers, cache, cached, settings, bookInfo, result, env, today, coverFilename, filePath, existingData, originalTitle, originalAuthor) ==
    bind(~IsNull(bookInfo) /\ Val(bookInfo).coverUrl # <<>> /\ coverFilename \notin covers
            /\ env.downloadOk,
         LAMBDA saved :
            renderBook(vault,
                       IF saved THEN covers \cup {coverFilename} ELSE covers,
                       IF IsNull(bookInfo) THEN cache
                       ELSE setCachedInfo(cache, originalTitle, originalAuthor,
                                          cacheEntryOf(originalTitle, Val(bookInfo))),
                       [(IF IsNull(bookInfo) THEN cached
                         ELSE useBookInfo(cached, Val(bookInfo)))
                            EXCEPT !.coverPath = IF saved \/ coverFilename \in covers
                                                 THEN CoversFolder \o coverFilename
                                                 ELSE @],
                       settings, result, today, filePath, existingData, ~IsNull(bookInfo),
                       env.writeThrows))

\* if (shouldFetchMetadata) { ... } and the rendering and writing after it.
\* env.downloadOk: downloadCover returns the image
writeBook(vault, covers, cache, bookData, settings, prefetchedInfo, result, env, today, filename, filePath, existingData, cachedInfo) ==
    bind(IF IsNull(cachedInfo) THEN bookData ELSE useCachedInfo(bookData, Val(cachedInfo)),
         LAMBDA cached :
            fetchBook(vault, covers, cache, cached, settings,
                      IF cached.book.title \o <<"|">> \o cached.book.author
                            \in DOMAIN prefetchedInfo
                      THEN Some(prefetchedInfo[cached.book.title \o <<"|">>
                                               \o cached.book.author])
                      ELSE Null,
                      result, env, today, filename \o DotJpg, filePath, existingData,
                      bookData.book.title, bookData.book.author))

\* the test without its last condition
unchangedWhateverTheCache(existingData, bookData, hasAttemptedFetch) ==
    /\ IF existingData.highlightsHash # <<>>
       THEN existingData.highlightsHash = computeHighlightsHash(bookData.highlights)
       ELSE existingData.highlightsCount = Len(bookData.highlights)
    /\ existingData.progress = bookData.progress
    /\ existingData.lastRead = (IF ~IsNull(bookData.lastReadTimestamp)
                                THEN isoDate(Val(bookData.lastReadTimestamp)) ELSE <<>>)

\* the test with the counts compared whether or not a digest is stored
unchangedByCount(existingData, bookData, hasAttemptedFetch) ==
    /\ existingData.highlightsCount = Len(bookData.highlights)
    /\ existingData.progress = bookData.progress
    /\ existingData.lastRead = (IF ~IsNull(bookData.lastReadTimestamp)
                                THEN isoDate(Val(bookData.lastReadTimestamp)) ELSE <<>>)
    /\ hasAttemptedFetch

\* if (fileExists) { ... } of processBook: whether the book is unchanged
bookUnchanged(existingData, bookData, hasAttemptedFetch) ==
    /\ IF existingData.highlightsHash # <<>>
       THEN existingData.highlightsHash = computeHighlightsHash(bookData.highlights)
       ELSE existingData.highlightsCount = Len(bookData.highlights)
    /\ existingData.progress = bookData.progress
    /\ existingData.lastRead = (IF ~IsNull(bookData.lastReadTimestamp)
                                THEN isoDate(Val(bookData.lastReadTimestamp)) ELSE <<>>)
    /\ hasAttemptedFetch

\* "skipped", "deleted", or "written" for the rest of processBook: the
\* handling of a book with no highlights, and the test for a change
decideBook(existingData, bookData, settings, hasAttemptedFetch) ==
    IF bookData.highlights = <<>> /\ IsNull(existingData)
       /\ ~settings.trackBooksWithoutHighlights
    THEN "skipped"
    ELSE IF bookData.highlights = <<>> /\ ~IsNull(existingData)
            /\ (settings.trackBooksWithoutHighlights
                    \/ hasUserNotes(Val(existingData).fullContent))
            /\ Val(existingData).highlightsCount = 0
    THEN "skipped"
    ELSE IF bookData.highlights = <<>> /\ ~IsNull(existingData)
            /\ ~settings.trackBooksWithoutHighlights
            /\ ~hasUserNotes(Val(existingData).fullContent)
    THEN "deleted"
    ELSE IF ~IsNull(existingData)
            /\ bookUnchanged(Val(existingData), bookData, hasAttemptedFetch)
    THEN "skipped"
    ELSE "written"

\* processBook once findExistingFile has returned filePath and left vault
processFound(vault, filePath, covers, cache, bookData, settings, prefetchedInfo, result, env, today, existingData, cachedInfo) ==
    bind(decideBook(existingData, bookData, settings,
                    hasFields(cachedInfo, AttemptedFields)),
         LAMBDA decision :
            IF decision = "skipped"
            THEN outcomeOf(vault, covers, cache, [result EXCEPT !.booksSkipped = @ + 1],
                           FALSE, "skipped", filePath)
            ELSE IF decision = "deleted" /\ env.writeThrows
            \* vault.trash fails
            THEN outcomeOf(vault, covers, cache, result, FALSE, "failed", filePath)
            ELSE IF decision = "deleted"
            \* the file exists, so the path is in the vault and is trashed
            THEN outcomeOf([p \in DOMAIN vault \ {filePath} |-> vault[p]], covers, cache,
                           [result EXCEPT !.booksDeleted = @ + 1], FALSE, "deleted",
                           filePath)
            ELSE writeBook(vault, covers, cache, bookData, settings, prefetchedInfo,
                           result, env, today, generateFilename(bookData.book.title),
                           filePath, existingData, cachedInfo))

\* env.renameThrows: the store fails the rename of findExistingFile
processBook(vault0, covers, cache, bookData, settings, prefetchedInfo, titleCache, result, env, today) ==
    bind(findExistingFile(vault0, generateFilename(bookData.book.title),
                          bookData.book.title, titleCache, env.renameThrows),
         LAMBDA found :
            processFound(found.files, found.path, covers, cache, bookData, settings,
                         prefetchedInfo, result, env, today,
                         getExistingBookData(found.files, found.path),
                         getCachedInfo(cache, bookData.book.title, bookData.book.author)))

-----------------------------------------------------------------------------
(* Documents that are not from the reader: the scanner, processCustomBook *)

\* the ScannedBook of a stored document, Null when its header has no title
scannedBookOf(parsed, filePath) ==
    IF parsed.title = <<>> THEN Null
    ELSE Some([title |-> parsed.title,
               author |-> parsed.author,
               progress |-> parsed.progress,
               highlightsCount |-> IF IsNull(parsed.highlightsCount) THEN 0
                                   ELSE Val(parsed.highlightsCount),
               coverPath |-> parsed.coverPath,
               filePath |-> filePath,
               isMoonReader |-> parsed.moonReaderPath # <<>>])

parseBookFrontmatter(content, filePath) == scannedBookOf(parseFrontmatter(content), filePath)

\* listing: the documents of the output folder in the order the store lists them
RECURSIVE scanAllBookNotes(_, _, _)
scanAllBookNotes(vault, listing, i) ==
    IF i > Len(listing) THEN <<>>
    ELSE bind(parseBookFrontmatter(vault[listing[i]], listing[i]), LAMBDA bookData :
                (IF IsNull(bookData) THEN <<>> ELSE <<Val(bookData)>>)
                \o scanAllBookNotes(vault, listing, i + 1))

\* scannedBooks.filter(book => !book.isMoonReader)
isCustomBook(book) == ~book.isMoonReader

CustomSkippedKeys ==
    {KeyPublishedDate, KeyPublisher, KeyPageCount, KeyGenres, KeySeries, KeyLanguage, KeyCover}

\* the loop over frontmatterLines of updateCustomBookFrontmatter
RECURSIVE keptCustomLines(_, _, _)
keptCustomLines(lines, i, skipNextLine) ==
    IF i > Len(lines) THEN <<>>
    ELSE IF skipNextLine /\ startsWith(trim(lines[i]), <<"-">>)
    THEN keptCustomLines(lines, i + 1, TRUE)
    ELSE IF \E key \in CustomSkippedKeys : startsWith(lines[i], key)
    THEN keptCustomLines(lines, i + 1, startsWith(lines[i], KeyGenres))
    ELSE <<lines[i]>> \o keptCustomLines(lines, i + 1, FALSE)

\* s.replace(/"/g, "")
withoutQuotes(s) == SelectSeq(s, LAMBDA c : c # "\"")

\* frontmatterLines.find(l => l.startsWith("title:"))?.split(":")[1]?.trim()
\*     .replace(/"/g, "") || ""
titleForCover(lines) ==
    LET at == keyLineFrom(lines, KeyTitle, 1, Len(lines))
        rest == SubSeq(lines[at], Len(KeyTitle) + 1, Len(lines[at]))
        colon == indexOf(rest, <<":">>, 1)
    IN  IF at = 0 THEN <<>>
        ELSE withoutQuotes(trim(IF colon = 0 THEN rest ELSE SubSeq(rest, 1, colon - 1)))

updateCustomBookFrontmatter(content, bookInfo, settings) ==
    LET all == splitLines(content)
        close == closingFence(all)
        frontmatterLines == SubSeq(all, 2, close - 1)
        contentAfterFrontmatter ==
            joinLines(<<SubSeq(all[close], 4, Len(all[close]))>>
                      \o SubSeq(all, close + 1, Len(all)))
        coverFilename == generateFilename(titleForCover(frontmatterLines))
        lines ==
            <<Fence>> \o keptCustomLines(frontmatterLines, 1, FALSE)
            \o quotedLine(KeyPublishedDate, escapeYaml(bookInfo.publishedDate))
            \o quotedLine(KeyPublisher, escapeYaml(bookInfo.publisher))
            \o (IF ~IsNull(bookInfo.pageCount)
                THEN <<KeyPageCount \o <<" ">> \o Val(bookInfo.pageCount)>> ELSE <<>>)
            \o (IF ~IsNull(bookInfo.genres) /\ Val(bookInfo.genres) # <<>>
                THEN <<KeyGenres>> \o genreLines(Val(bookInfo.genres)) ELSE <<>>)
            \o quotedLine(KeySeries, escapeYaml(bookInfo.series))
            \o quotedLine(KeyLanguage, bookInfo.language)
            \o (IF coverFilename # <<>>
                THEN <<KeyCover \o <<" ", "\"">> \o CoversFolder \o coverFilename \o DotJpg
                       \o <<"\"">>>>
                ELSE <<>>)
            \o <<Fence>>
    IN  IF close = 0 THEN content ELSE joinLines(lines) \o contentAfterFrontmatter

\* /^custom_metadata:\s*true/m.test(content)
RECURSIVE customMetadataFrom(_, _)
customMetadataFrom(lines, i) ==
    IF i > Len(lines) THEN FALSE
    ELSE \/ /\ startsWith(lines[i], KeyCustomMetadata)
            /\ startsWith(trimStart(SubSeq(lines[i], Len(KeyCustomMetadata) + 1,
                                           Len(lines[i]))), True)
         \/ customMetadataFrom(lines, i + 1)

declaresCustomMetadata(content) == customMetadataFrom(splitLines(content), 1)

\* bookInfo.coverUrl || bookInfo.description || ... : the lookup found something
foundSomething(bookInfo) ==
    \/ bookInfo.coverUrl # <<>> \/ bookInfo.description # <<>>
    \/ bookInfo.publishedDate # <<>> \/ bookInfo.publisher # <<>>
    \/ ~IsNull(bookInfo.pageCount) \/ ~IsNull(bookInfo.genres)
    \/ bookInfo.series # <<>> \/ bookInfo.language # <<>>

\* bookInfo: what fetchBookInfo returns for the book; env.downloadOk as in
\* processBook.  An author that is null makes setCachedInfo throw, after the
\* document has been written.
processCustomBook(vault, covers, cache, scannedBook, settings, result, bookInfo, env) ==
    LET filePath == scannedBook.filePath
        content == vault[filePath]
        cachedInfo == getCachedInfo(cache, scannedBook.title, scannedBook.author)
        written == [vault EXCEPT ![filePath] =
                        updateCustomBookFrontmatter(content, bookInfo, settings)]
        coverFilename == generateFilename(scannedBook.title) \o DotJpg
        covers2 == IF bookInfo.coverUrl # <<>> /\ env.downloadOk
                   THEN covers \cup {coverFilename} ELSE covers
    IN  IF declaresCustomMetadata(content) \/ hasFields(cachedInfo, AttemptedFields)
           \/ ~foundSomething(bookInfo)
        THEN outcomeOf(vault, covers, cache, result, FALSE, "none", filePath)
        ELSE IF scannedBook.author = <<>>
        THEN outcomeOf(written, covers, cache, result, FALSE, "failed", filePath)
        ELSE outcomeOf(written, covers2,
                       setCachedInfo(cache, scannedBook.title, scannedBook.author,
                                     cacheEntryOf(bookInfo.title, bookInfo)),
                       [result EXCEPT !.booksUpdated = @ + 1], TRUE, "updated", filePath)

-----------------------------------------------------------------------------
(* The synchronizer as a state machine: passes of syncFromMoonReader over  *)
(* a cache directory and an output folder that the reader and the user     *)
(* change between passes                                                   *)

\* the passes of a behaviour, and what the reader and the user do in it
MaxPasses == 2

MaxChanges == 1

MaxEdits == 1

MaxToggles == 1

\* the document the "create book note" dialog writes for a title and an
\* author, with nothing looked up
generateBookTemplate(title, author, day) ==
    joinLines(
        <<Fence, KeyTitle \o <<" ", "\"">> \o escapeYaml(title) \o <<"\"">>>>
        \o quotedLine(KeyAuthor, escapeYaml(author))
        \o <<KeyLastSynced \o <<" ">> \o day,
             KeyHighlightsCount \o <<" ", "0">>,
             KeyManualNote \o <<" ", "t", "r", "u", "e">>,
             Fence,
             <<"#", " ">> \o title>>
        \o (IF author # <<>> THEN <<<<"*", "*", "A", "u", "t", "h", "o", "r", ":", "*",
              "*", " ">> \o author>> ELSE <<>>)
        \o << <<>>, <<"#", "#", " ", "H", "i", "g", "h", "l", "i", "g", "h", "t", "s">>,
              <<>>, <<">", " ", "[", "!", "q", "u", "o", "t", "e", "]">>,
              <<">", " ", "A", "d", "d", " ", "y", "o", "u", "r", " ", "h", "i", "g",
                    "h", "l", "i", "g", "h", "t", "s", " ", "h", "e", "r", "e", ".", ".", ".">>,
              <<>> >>)

\* The reader's files.  One highlight block of an annotation file:
SyBlock(id, title, path, payload) ==
    <<Hash, id, title, path, toLowerCase(path), <<"3">>, Zero, <<"1", "2">>, <<"5">>,
      <<"-", "2", "5", "6">>, <<"1", "7">>>> \o payload \o <<Zero>>

SyAnnotations(name, lines) ==
    [name |-> name, data |-> [ok |-> TRUE, text |-> joinLines(lines)]]

\* the files of the book "Ab" by "Cd": its highlights, and where it is read
SyOne == SyBlock(<<"1">>, <<"A", "b", " ", "-", " ", "C", "d">>, <<"/", "A", "b", ".", "e",
      "p", "u", "b">>, <<<<"a">>>>)

SyTwo == SyBlock(<<"2">>, <<"A", "b", " ", "-", " ", "C", "d">>, <<"/", "A", "b", ".", "e",
      "p", "u", "b">>, <<<<"n">>, <<"b">>>>)

SyAb(lines) == SyAnnotations(<<"A", "b", " ", "-", " ", "C", "d", ".", "e", "p", "u", "b",
      ".", "a", "n">>, lines)

SyAbAt(percent) ==
    [name |-> <<"A", "b", " ", "-", " ", "C", "d", ".", "e", "p", "u", "b", ".", "p",
          "o">>, data |-> <<"1", "7", "0", "0", "0", "0", "0", "0", "0", "0", "0", "0", "0",
                "*", "3", "@", "0", "#", "1", "2", ":">> \o percent \o <<"%">>]

\* the file of a second book, "Ef"
SyEf == SyAnnotations(<<"E", "f", ".", "e", "p", "u", "b", ".", "a",
      "n">>, SyBlock(<<"1">>, <<"E", "f">>, <<"/", "E", "f", ".", "e", "p", "u",
            "b">>, <<<<"e">>>>))

\* the states of the cache directory: a book with one highlight, with
\* two, with a position of two decimals, with no highlight left, and next
\* to a second book
SyDirectories ==
    { Some(<<SyAb(SyOne), SyAbAt(<<"4", "1", ".", "2">>)>>),
      Some(<<SyAb(SyOne \o SyTwo), SyAbAt(<<"4", "1", ".", "2">>)>>),
      Some(<<SyAb(SyOne), SyAbAt(<<"4", "1", ".", "1", "7">>)>>),
      Some(<<SyAb(<<>>), SyAbAt(<<"4", "1", ".", "2">>)>>),
      Some(<<SyAb(<<>>), SyAbAt(<<"4", "1", ".", "2">>), SyEf>>) }

SyDays == <<<<"2", "0", "2", "3", "-", "1", "1", "-", "2", "0">>, <<"2", "0", "2", "3", "-",
      "1", "1", "-", "2", "1">>>>

\* what the user has put into the output folder before the first pass:
\* nothing; a document made with the dialog for the book "Ab"; one for a
\* book that is not in the reader; the latter with a header of their own
SyManualNote == generateBookTemplate(<<"A", "b">>, <<"C", "d">>, SyDays[1]) \o <<"I", " ",
      "l", "i", "k", "e", "d", " ", "i", "t", ".", "\n">>

SyCustomNote == generateBookTemplate(<<"G", "h">>, <<"I", "j">>, SyDays[1])

\* the user's lines: the flag, and a publisher of their own
SyOwnLines == <<KeyCustomMetadata \o <<" ", "t", "r", "u", "e">>, KeyPublisher \o <<" ", "\"",
      "M", "i", "n", "e", "\"">>>>

\* the header of a document with the user's lines put first, in place of
\* the publisher line it had
protectHeader(content) ==
    LET lines == splitLines(content)
    IN  joinLines(<<Fence>> \o SyOwnLines
                  \o SelectSeq(SubSeq(lines, 2, closingFence(lines) - 1),
                               LAMBDA l : ~startsWith(l, KeyPublisher))
                  \o SubSeq(lines, closingFence(lines), Len(lines)))

SyVaults ==
    { << >>,
      [p \in {<<"A", "b">>} |-> SyManualNote],
      [p \in {<<"G", "h">>} |-> SyCustomNote],
      [p \in {<<"G", "h">>} |-> protectHeader(SyCustomNote)] }

\* the order in which the store lists the documents of the output folder
SyListing(files) ==
    SelectSeq(<<<<"A", "b">>, <<"A", "b", "c", "d", "1">>, <<"A", "b", "c", "d", "2">>,
                <<"E", "f">>, <<"G", "h">>>>,
              LAMBDA p : p \in DOMAIN files)

\* what a lookup can return: nothing, or a record of the book
FoundBookInfo ==
    [title |-> <<"T">>, coverUrl |-> <<"u">>, description |-> <<"d">>, author |-> <<"Z", "z">>,
     source |-> <<"g", "o", "o", "g", "l", "e", "b", "o", "o", "k",
           "s">>, publishedDate |-> <<"2", "0", "0", "1">>, publisher |-> <<"P", "u", "b">>,
     pageCount |-> Some(<<"9">>), genres |-> Some(<<<<"g">>>>), series |-> <<>>,
     language |-> <<"e", "n">>]

LookupResults == {NoBookInfo, FoundBookInfo}

\* whether downloadCover returns the image of a cover that was found: in
\* the behaviours of the model it does
Downloads == {TRUE}

\* what the user types under My Notes: in place of the placeholder, or
\* (keep) below it
SyUserEdits ==
    { [keep |-> FALSE, text |-> <<"m", "i", "n", "e">>],
      [keep |-> FALSE, text |-> <<"m", "i", "n", "e", "\n", "#", "#", " ", "M", "o", "r", "e",
            "\n", "r", "e", "s", "t">>],
      [keep |-> FALSE, text |-> <<"a", "$", "$", "b">>],
      [keep |-> TRUE, text |-> <<"-", "-", "-", "\n", "m", "i", "n", "e">>] }

Placeholder == PlaceholderTitle \o <<"\n">> \o PlaceholderText

userEdit(content, edit) ==
    LET at == indexOf(content, Placeholder, 1)
    IN  SubSeq(content, 1, at - 1)
        \o (IF edit.keep THEN Placeholder \o <<"\n">> ELSE <<>>) \o edit.text
        \o SubSeq(content, at + Len(Placeholder), Len(content))

\* the metadata lines of the header of a document
MetadataKeys ==
    {KeyTitle, KeyAuthor, KeyCover, KeyPublisher, KeyPublishedDate, KeyPageCount, KeyGenres,
     KeySeries, KeyLanguage}

metadataHeader(content) ==
    LET lines == splitLines(content)
        header == SubSeq(lines, 2, closingFence(lines) - 1)
    IN  { header[i] : i \in { j \in 1..Len(header) :
                                \/ \E key \in MetadataKeys : startsWith(header[j], key)
                                \/ startsWith(trim(header[j]), <<"-">>) } }

\* the body of a document: what follows its header, trimmed
authoredBody(content) ==
    LET lines == splitLines(content)
    IN  trim(joinLines(SubSeq(lines, closingFence(lines) + 1, Len(lines))))

NewResult ==
    [success |-> FALSE, booksProcessed |-> 0, booksCreated |-> 0, booksUpdated |-> 0,
     booksSkipped |-> 0, booksDeleted |-> 0, manualBooksAdded |-> 0, totalHighlights |-> 0,
     totalNotes |-> 0, isFirstSync |-> FALSE, errors |-> <<>>, failedBooks |-> <<>>]

\* the settings: tracking is on or off; the index note and the base file
\* are off
SySettings(track) ==
    [trackBooksWithoutHighlights |-> track, showReadingProgress |-> TRUE,
     showDescription |-> TRUE, showHighlightColors |-> TRUE, showNotes |-> TRUE,
     showIndex |-> FALSE, generateBaseFile |-> FALSE]

\* how a behaviour starts: an empty output folder with any directory and
\* either setting, or one of the user's documents with the directory of
\* one highlight
SyStarts ==
    { [source |-> d, vault |-> << >>, track |-> t] : d \in SyDirectories, t \in BOOLEAN }
    \cup { [source |-> Some(<<SyAb(SyOne), SyAbAt(<<"4", "1", ".", "2">>)>>), vault |-> v,
            track |-> FALSE] : v \in SyVaults }

SyInit(starts, storeFails) ==
    /\ syStoreFails = storeFails
    /\ \E start \in starts :
        /\ sySource = start.source
        /\ syVault = start.vault
        /\ sySettings = SySettings(start.track)
    /\ syFolderExists = (syVault # << >>)
    /\ syCovers = {}
    /\ syCacheFile = << >>
    /\ syToday = SyDays[1]
    /\ syPc = "idle"
    /\ syBooksWithHighlights = <<>>
    /\ syBookAt = 0
    /\ syCache = << >>
    /\ syCacheModified = FALSE
    /\ syPrefetchedInfo = << >>
    /\ syTitleCache = <<>>
    /\ syResult = NewResult
    /\ syCustomBooks = <<>>
    /\ syCustomAt = 0
    /\ syResults = <<>>
    /\ syBefore = << >>
    /\ syQuiet = TRUE
    /\ syUserNotes = << >>
    /\ syProtected = [p \in { q \in DOMAIN syVault : declaresCustomMetadata(syVault[q]) } |->
                        metadataHeader(syVault[p])]
    /\ syDropped = {}
    /\ syDid = << >>
    /\ syAuthored = [p \in { q \in DOMAIN syVault : parseFrontmatter(syVault[q]).isManualNote } |->
                        authoredBody(syVault[p])]
    /\ syUsed = [changes |-> 0, edits |-> 0, toggles |-> 0]

Init == SyInit(SyStarts, FALSE) /\ FsIdle /\ PoIdle /\ DcIdle /\ RestIdle

RECURSIVE totalHighlights(_, _)
totalHighlights(books, i) ==
    IF i > Len(books) THEN 0
    ELSE Len(books[i].highlights) + totalHighlights(books, i + 1)

RECURSIVE totalNotes(_, _)
totalNotes(books, i) ==
    IF i > Len(books) THEN 0
    ELSE notesCount(books[i].highlights) + totalNotes(books, i + 1)

\* the "title|author" of the books the pass looks up: those without a cover
\* or without a cache entry that holds the three fields
booksToFetch(books, cached, coverFiles) ==
    { books[i].book.title \o <<"|">> \o books[i].book.author :
        i \in { j \in 1..Len(books) :
                  \/ generateFilename(books[j].book.title) \o DotJpg \notin coverFiles
                  \/ ~hasFields(getCachedInfo(cached, books[j].book.title,
                                              books[j].book.author),
                                {"publishedDate", "publisher", "pageCount"}) } }

\* the titles parseFrontmatter reads from the documents
titlesOf(files) == [p \in DOMAIN files |-> parseFrontmatter(files[p]).title]

\* whether the book of a document has no highlight among the books left
noneLeft(left, title) ==
    \A i \in 1..Len(left) :
        toLowerCase(left[i].book.title) = toLowerCase(title) => left[i].highlights = <<>>

isDropped(parsed, notes, left) ==
    /\ parsed.moonReaderPath # <<>>
    /\ ~IsNull(parsed.highlightsCount) /\ Val(parsed.highlightsCount) >= 1
    /\ notes = <<>>
    /\ noneLeft(left, parsed.title)

\* the reader's documents with highlights whose book has none left in the
\* cache directory, and nothing of the user's under My Notes
droppedBooks ==
    bind(parseAnnotationFiles(sySource, TRUE), LAMBDA left :
        { p \in DOMAIN syVault :
            syResults # <<>>
            /\ isDropped(parseFrontmatter(syVault[p]), valueAt(syUserNotes, p), left) })

\* what a pass leaves of its own state when it returns
PassReturns(res, same) ==
    /\ syPc' = "idle"
    /\ syBooksWithHighlights' = <<>>
    /\ syBookAt' = 0
    /\ syCache' = << >>
    /\ syCacheModified' = FALSE
    /\ syPrefetchedInfo' = << >>
    /\ syTitleCache' = <<>>
    /\ syCustomBooks' = <<>>
    /\ syCustomAt' = 0
    /\ syResult' = res
    /\ syResults' = Append(syResults, [result |-> res, quiet |-> syQuiet, same |-> same])
    /\ syBefore' = << >>
    /\ syQuiet' = TRUE

\* syncFromMoonReader up to the loop over the books: the directory is read,
\* the output folder made, the cache loaded, the titles scanned, the books
\* looked up
SyncStart ==
    /\ syPc = "idle"
    /\ Len(syResults) < MaxPasses
    /\ syDid' = << >>
    /\ syDropped' = IF sySettings.trackBooksWithoutHighlights THEN {} ELSE droppedBooks
    /\ \E books \in {parseAnnotationFiles(sySource,
                                          sySettings.trackBooksWithoutHighlights)} :
        IF books = <<>>
        THEN /\ PassReturns([NewResult EXCEPT !.errors = <<"No annotation files found">>],
                            TRUE)
             /\ UNCHANGED syFolderExists
        ELSE /\ syPc' = "books"
             /\ syBooksWithHighlights' = books
             /\ syBookAt' = 1
             /\ syFolderExists' = TRUE
             /\ syResult' = [NewResult EXCEPT !.isFirstSync = ~syFolderExists,
                                              !.totalHighlights = totalHighlights(books, 1),
                                              !.totalNotes = totalNotes(books, 1)]
             /\ syCache' = syCacheFile
             /\ syCacheModified' = FALSE
             /\ syTitleCache' = buildTitleCache(titlesOf(syVault), SyListing(syVault))
             /\ syPrefetchedInfo' \in [booksToFetch(books, syCacheFile, syCovers)
                                          -> LookupResults]
             /\ syBefore' = syVault
             /\ UNCHANGED <<syCustomBooks, syCustomAt, syResults, syQuiet>>
    /\ UNCHANGED <<sySource, syVault, syCovers, syCacheFile, sySettings, syToday, syStoreFails,
                   syUserNotes, syProtected, syAuthored, syUsed, notSy>>

\* the failure of a book left out of the result
afterBookUnrecorded(result, did, title) ==
    IF did = "failed" THEN result ELSE [result EXCEPT !.booksProcessed = @ + 1]

\* try { ... result.booksProcessed++ } catch (error) { ... } of the loop
\* over the books: what the result holds after processBook returned or threw
afterBook(result, did, title) ==
    IF did = "failed"
    THEN [result EXCEPT !.failedBooks = Append(@, [title |-> title, error |-> "Error"]),
                        !.errors = Append(@, "Error processing")]
    ELSE [result EXCEPT !.booksProcessed = @ + 1]

\* one turn of the loop over the books: processBook, and the catch around it
ProcessBook ==
    /\ syPc = "books"
    /\ syBookAt <= Len(syBooksWithHighlights)
    /\ \E renameThrows \in BOOLEAN, downloadOk \in Downloads,
          writeThrows \in (IF syStoreFails THEN BOOLEAN ELSE {FALSE}) :
        \E r \in {processBook(syVault, syCovers, syCache, syBooksWithHighlights[syBookAt],
                              sySettings, syPrefetchedInfo, syTitleCache, syResult,
                              [renameThrows |-> renameThrows, downloadOk |-> downloadOk,
                               writeThrows |-> writeThrows],
                              syToday)} :
            /\ syVault' = r.vault
            /\ syCovers' = r.covers
            /\ syCache' = r.cache
            /\ syCacheModified' = (syCacheModified \/ r.cacheModified)
            /\ syResult' = afterBook(r.result, r.did,
                                     syBooksWithHighlights[syBookAt].book.title)
            /\ syDid' = put(syDid, r.path, r.did)
    /\ syBookAt' = syBookAt + 1
    /\ UNCHANGED <<sySource, syFolderExists, syCacheFile, sySettings, syToday, syStoreFails, syPc,
                   syBooksWithHighlights, syPrefetchedInfo, syTitleCache, syCustomBooks,
                   syCustomAt, syResults, syBefore, syQuiet, syUserNotes, syProtected,
                   syDropped, syAuthored, syUsed, notSy>>

\* after the loop over the books: scanAllBookNotes, and the filter
ScanCustom ==
    /\ syPc = "books"
    /\ syBookAt > Len(syBooksWithHighlights)
    /\ syCustomBooks' = SelectSeq(scanAllBookNotes(syVault, SyListing(syVault), 1),
                                  isCustomBook)
    /\ syCustomAt' = 1
    /\ syPc' = "custom"
    /\ UNCHANGED <<storeVars, syBooksWithHighlights, syBookAt, syCache, syCacheModified,
                   syPrefetchedInfo, syTitleCache, syResult, historyVars, notSy>>

\* one turn of the loop over the custom books: processCustomBook with
\* what fetchBookInfo returns, and the catch around it
ProcessCustomBook ==
    /\ syPc = "custom"
    /\ syCustomAt <= Len(syCustomBooks)
    /\ \E bookInfo \in LookupResults, downloadOk \in Downloads :
        \E r \in {processCustomBook(syVault, syCovers, syCache, syCustomBooks[syCustomAt],
                                    sySettings, syResult, bookInfo,
                                    [downloadOk |-> downloadOk])} :
            /\ syVault' = r.vault
            /\ syCovers' = r.covers
            /\ syCache' = r.cache
            /\ syCacheModified' = (syCacheModified \/ r.cacheModified)
            /\ syResult' =
                 IF r.did = "failed"
                 THEN [r.result EXCEPT
                         !.failedBooks = Append(@, [title |-> syCustomBooks[syCustomAt].title,
                                                    error |-> "Error"]),
                         !.errors = Append(@, "Error processing custom book")]
                 ELSE r.result
            /\ syDid' = IF r.did = "none" THEN syDid ELSE put(syDid, r.path, r.did)
    /\ syCustomAt' = syCustomAt + 1
    /\ UNCHANGED <<sySource, syFolderExists, syCacheFile, sySettings, syToday, syStoreFails, syPc,
                   syBooksWithHighlights, syBookAt, syPrefetchedInfo, syTitleCache,
                   syCustomBooks, syResults, syBefore, syQuiet, syUserNotes, syProtected,
                   syDropped, syAuthored, syUsed, notSy>>

\* the end of syncFromMoonReader: the cache is saved if it was modified.
\* The settings of the model have the index note and the base file off.
SyncFinish ==
    /\ syPc = "custom"
    /\ syCustomAt > Len(syCustomBooks)
    /\ ~sySettings.showIndex /\ ~sySettings.generateBaseFile
    /\ syCacheFile' = IF syCacheModified THEN syCache ELSE syCacheFile
    /\ PassReturns([syResult EXCEPT !.success = TRUE], syVault = syBefore)
    /\ UNCHANGED <<sySource, syVault, syFolderExists, syCovers, sySettings, syToday, syStoreFails,
                   syUserNotes, syProtected, syDropped, syDid, syAuthored, syUsed, notSy>>

\* Between two passes the reader rewrites its cache directory
SourceChange ==
    /\ syPc = "idle"
    /\ syResults # <<>> /\ Len(syResults) < MaxPasses
    /\ syUsed.changes < MaxChanges
    /\ \E d \in SyDirectories \ {sySource} : sySource' = d
    /\ syUsed' = [syUsed EXCEPT !.changes = @ + 1]
    /\ syQuiet' = FALSE
    /\ UNCHANGED <<syVault, syFolderExists, syCovers, syCacheFile, sySettings, syToday, syStoreFails,
                   passVars, syResults, syBefore, syUserNotes, syProtected, syDropped,
                   syDid, syAuthored, notSy>>

\* Between two passes the user writes under My Notes of a document that
\* still has the placeholder there
UserEdit ==
    /\ syPc = "idle"
    /\ Len(syResults) < MaxPasses
    /\ syUsed.edits < MaxEdits
    /\ \E p \in DOMAIN syVault, edit \in SyUserEdits :
        /\ indexOf(syVault[p], Placeholder, 1) # 0
        /\ syVault' = [syVault EXCEPT ![p] = userEdit(syVault[p], edit)]
        /\ syUserNotes' = put(syUserNotes, p, edit.text)
    /\ syUsed' = [syUsed EXCEPT !.edits = @ + 1]
    /\ syQuiet' = FALSE
    /\ UNCHANGED <<sySource, syFolderExists, syCovers, syCacheFile, sySettings, syToday, syStoreFails,
                   passVars, syResults, syBefore, syProtected, syDropped, syDid,
                   syAuthored, notSy>>

\* Between two passes the user puts custom_metadata: true and a publisher
\* of their own into the header of a document of the reader's
ProtectMetadata ==
    /\ syPc = "idle"
    /\ Len(syResults) < MaxPasses
    /\ syUsed.edits < MaxEdits
    /\ \E p \in DOMAIN syVault :
        /\ parseFrontmatter(syVault[p]).moonReaderPath # <<>>
        /\ ~declaresCustomMetadata(syVault[p])
        /\ syVault' = [syVault EXCEPT ![p] = protectHeader(syVault[p])]
        /\ syProtected' = put(syProtected, p, metadataHeader(protectHeader(syVault[p])))
    /\ syUsed' = [syUsed EXCEPT !.edits = @ + 1]
    /\ syQuiet' = FALSE
    /\ UNCHANGED <<sySource, syFolderExists, syCovers, syCacheFile, sySettings, syToday, syStoreFails,
                   passVars, syResults, syBefore, syUserNotes, syDropped, syDid,
                   syAuthored, notSy>>

\* The settings tab: the user switches "track books without highlights",
\* between two passes or while a pass is at work, on the object the pass reads
ToggleTracking ==
    /\ (syPc = "idle" /\ syResults # <<>>) \/ syPc = "books"
    /\ Len(syResults) < MaxPasses
    /\ syUsed.toggles < MaxToggles
    /\ sySettings' = [sySettings EXCEPT !.trackBooksWithoutHighlights = ~@]
    /\ syUsed' = [syUsed EXCEPT !.toggles = @ + 1]
    /\ syQuiet' = FALSE
    /\ syDropped' = IF syPc = "idle" THEN syDropped ELSE {}
    /\ UNCHANGED <<sySource, syVault, syFolderExists, syCovers, syCacheFile, syToday, syStoreFails,
                   passVars, syResults, syBefore, syUserNotes, syProtected, syDid,
                   syAuthored, notSy>>

Next ==
    \/ SyncStart \/ ProcessBook \/ ScanCustom \/ ProcessCustomBook \/ SyncFinish
    \/ SourceChange \/ UserEdit \/ ProtectMetadata \/ ToggleTracking

Spec == Init /\ [][Next]_vars

-----------------------------------------------------------------------------
(* What the passes are said to keep                                        *)

\* C1: a pass that follows a completed pass, with nothing having acted in
\* between, creates no document and updates none, and leaves every
\* document as it was.
SecondPassChangesNothing ==
    \A k \in 2..Len(syResults) :
        syResults[k - 1].result.success /\ syResults[k].quiet
            => /\ syResults[k].result.booksCreated = 0
               /\ syResults[k].result.booksUpdated = 0
               /\ syResults[k].same

\* C2: a document of the reader's that a pass has rewritten holds what the
\* user typed under My Notes, whole and as typed; one that had nothing but
\* the placeholder there has the placeholder again.
UserNotesSurviveRewrite ==
    \A p \in DOMAIN syVault :
        valueAt(syDid, p) = "updated" /\ p \notin DOMAIN syAuthored
            => IF valueAt(syUserNotes, p) # <<>>
               THEN includes(syVault[p], syUserNotes[p])
               ELSE p \in DOMAIN syBefore /\ includes(syBefore[p], Placeholder)
                        => includes(syVault[p], Placeholder)

\* C3: a document the user made with manual_note: true, for a book of the
\* reader's, holds the body the user wrote, whatever the passes that have
\* updated it.
ManualBodyKept ==
    \A p \in DOMAIN syAuthored \cap DOMAIN syVault :
        includes(syVault[p], syAuthored[p])

\* C4: when a pass has returned that started with tracking off, a document
\* that had highlights, whose book has none left, and that has nothing of
\* the user's under My Notes, is gone and counted in booksDeleted.
DroppedBookDeleted ==
    syPc = "idle" /\ syResults # <<>>
        => \A p \in syDropped :
              /\ p \notin DOMAIN syVault
              /\ syResults[Len(syResults)].result.booksDeleted >= 1

\* C5: a step takes a document out of the output folder only if it is the
\* step of the loop over the books for a book without highlights, with
\* tracking off, and the user has typed nothing under My Notes of it.
OnlyEmptyUntrackedTrashed ==
    [][\A p \in DOMAIN syVault \ DOMAIN syVault' :
          Cardinality(DOMAIN syVault') < Cardinality(DOMAIN syVault)
              => /\ syPc = "books" /\ syBookAt <= Len(syBooksWithHighlights)
                 /\ syBooksWithHighlights[syBookAt].highlights = <<>>
                 /\ ~sySettings.trackBooksWithoutHighlights
                 /\ valueAt(syUserNotes, p) = <<>>]_vars

\* C6: the metadata lines of a header with custom_metadata: true stay as
\* the user left them, in a document of the reader's and in one that is
\* not.
ProtectedHeaderKept ==
    \A p \in DOMAIN syProtected \cap DOMAIN syVault :
        metadataHeader(syVault[p]) = syProtected[p]

-----------------------------------------------------------------------------
(* fetchBookInfo: the results of the two sources merged into one           *)

\* a || b for two texts (null and "" are falsy)
orText(a, b) == IF a # <<>> THEN a ELSE b

\* a || b for two page counts (null and 0 are falsy)
orNumber(a, b) == IF ~IsNull(a) /\ toNat(Val(a)) # 0 THEN a ELSE b

\* coverUrl: Open Library's, else Google Books'
preferOpenLibrary(googleBooks, openLibrary) == orText(openLibrary, googleBooks)

openLibraryFirst(googleBooks, openLibrary) == orText(openLibrary, googleBooks)

\* description, title, author, ...: Google Books', else Open Library's
preferGoogleBooks(googleBooks, openLibrary) == orText(googleBooks, openLibrary)

\* the genres of Open Library that are not among genres, whatever the case
RECURSIVE addGenres(_, _, _)
addGenres(genres, more, i) ==
    IF i > Len(more) THEN genres
    ELSE addGenres(IF \E k \in 1..Len(genres) : toLowerCase(genres[k]) = toLowerCase(more[i])
                   THEN genres ELSE Append(genres, more[i]),
                   more, i + 1)

mergeGenres(googleBooks, openLibrary) ==
    addGenres(IF IsNull(googleBooks) THEN <<>> ELSE Val(googleBooks),
              IF IsNull(openLibrary) THEN <<>> ELSE Val(openLibrary), 1)

GoogleBooksSource == <<"g", "o", "o", "g", "l", "e", "b", "o", "o", "k", "s">>

OpenLibrarySource == <<"o", "p", "e", "n", "l", "i", "b", "r", "a", "r", "y">>

sourceOf(coverUrl, description, googleBooksDescription) ==
    IF coverUrl # <<>> \/ description # <<>>
    THEN (IF googleBooksDescription # <<>> THEN GoogleBooksSource ELSE OpenLibrarySource)
    ELSE <<>>

mergedInfo(openLibraryResult, googleBooksResult, coverUrl, description, genres) ==
    [title |-> preferGoogleBooks(googleBooksResult.title, openLibraryResult.title),
     coverUrl |-> coverUrl,
     description |-> description,
     author |-> preferGoogleBooks(googleBooksResult.author, openLibraryResult.author),
     source |-> sourceOf(coverUrl, description, googleBooksResult.description),
     publishedDate |-> preferGoogleBooks(googleBooksResult.publishedDate,
                                         openLibraryResult.publishedDate),
     publisher |-> preferGoogleBooks(googleBooksResult.publisher, openLibraryResult.publisher),
     pageCount |-> orNumber(googleBooksResult.pageCount, openLibraryResult.pageCount),
     genres |-> IF genres = <<>> THEN Null ELSE Some(genres),
     series |-> openLibraryResult.series,
     language |-> preferGoogleBooks(googleBooksResult.language, openLibraryResult.language)]

fetchBookInfo(openLibraryResult, googleBooksResult) ==
    mergedInfo(openLibraryResult, googleBooksResult,
               preferOpenLibrary(googleBooksResult.coverUrl, openLibraryResult.coverUrl),
               preferGoogleBooks(googleBooksResult.description,
                                 openLibraryResult.description),
               mergeGenres(googleBooksResult.genres, openLibraryResult.genres))

\* how many fields a source fills in, when it does not fill in all
MgMaxPresent == 2

\* what each source returns when it fills in every field
OpenLibraryFull ==
    [title |-> <<"T", "o">>, coverUrl |-> <<"C", "o">>, description |-> <<"D",
          "o">>, author |-> <<"A", "o">>,
     publishedDate |-> <<"1", "9", "9", "9">>, publisher |-> <<"P",
           "o">>, pageCount |-> Some(<<"3", "0", "0">>),
     genres |-> Some(<<<<"S", "f">>, <<"E", "p", "i", "c">>>>), series |-> <<"S",
           "o">>, language |-> <<"e", "n", "g">>]

GoogleBooksFull ==
    [title |-> <<"T", "g">>, coverUrl |-> <<"C", "g">>, description |-> <<"D",
          "g">>, author |-> <<"A", "g">>,
     publishedDate |-> <<"2", "0", "0", "1">>, publisher |-> <<"P",
           "g">>, pageCount |-> Some(<<"2", "5", "0">>),
     genres |-> Some(<<<<"s", "f">>, <<"S", "p", "a", "c", "e">>>>), language |-> <<"e", "n">>]

\* the results of a source: any few of its fields, or all, the others null
MgResults(full) ==
    { [f \in DOMAIN full |-> IF f \in present THEN full[f] ELSE <<>>] :
        present \in { fs \in SUBSET DOMAIN full :
                        Cardinality(fs) <= MgMaxPresent \/ fs = DOMAIN full } }

MgInit ==
    /\ mgOpenLibrary \in MgResults(OpenLibraryFull)
    /\ mgGoogleBooks \in MgResults(GoogleBooksFull)
    /\ mgResult = << >>
    /\ mgPc = "fetch"

InitMerge == MgInit /\ FsIdle /\ PoIdle /\ DcIdle /\ SyIdle /\ PbIdle /\ RsIdle /\ RdIdle /\ IxIdle

\* fetchBookInfo, once both sources have answered
MgFetch ==
    /\ mgPc = "fetch"
    /\ mgResult' = fetchBookInfo(mgOpenLibrary, mgGoogleBooks)
    /\ mgPc' = "done"
    /\ UNCHANGED <<mgOpenLibrary, mgGoogleBooks, notMg>>

MgNext == MgFetch

SpecMerge == InitMerge /\ [][MgNext]_vars

\* the fields a result has a value for
MgPresent(result) == { f \in DOMAIN result : result[f] # <<>> }

\* Open Library has returned a cover and a series and nothing else, Google
\* Books a description and a publisher and nothing else
MgExample ==
    /\ MgPresent(mgOpenLibrary) = {"coverUrl", "series"}
    /\ MgPresent(mgGoogleBooks) = {"description", "publisher"}

MgPrecedence ==
    /\ mgResult.coverUrl = (IF mgOpenLibrary.coverUrl # <<>> THEN mgOpenLibrary.coverUrl
                            ELSE mgGoogleBooks.coverUrl)
    /\ \A f \in {"description", "title", "author", "publishedDate", "publisher",
                 "pageCount", "language"} :
          mgResult[f] = (IF mgGoogleBooks[f] # <<>> THEN mgGoogleBooks[f]
                         ELSE mgOpenLibrary[f])
    /\ mgResult.series = mgOpenLibrary.series

MgFourValues ==
    /\ mgResult.coverUrl = OpenLibraryFull.coverUrl
    /\ mgResult.series = OpenLibraryFull.series
    /\ mgResult.description = GoogleBooksFull.description
    /\ mgResult.publisher = GoogleBooksFull.publisher

\* C11 (as stated): the cover is Open Library's if it has one, else Google
\* Books'; description, title, author, published date, publisher, page count
\* and language are Google Books' if it has one, else Open Library's; the
\* series is Open Library's; and in the example the result has the four
\* values and every other field of it is null.
C11_OthersAllNull ==
    mgPc = "done" =>
        /\ MgPrecedence
        /\ MgExample => MgFourValues
                        /\ MgPresent(mgResult) = {"coverUrl", "series", "description",
                                                  "publisher"}

\* C11 (amended): the same precedence; in the example the result has the
\* four values, its source is "googlebooks", and every other field is null.
C11_MergePrecedence ==
    mgPc = "done" =>
        /\ MgPrecedence
        /\ MgExample => MgFourValues
                        /\ mgResult.source = GoogleBooksSource
                        /\ MgPresent(mgResult) = {"coverUrl", "series", "description",
                                                  "publisher", "source"}

C11_Witness == mgPc = "done" /\ MgExample

-----------------------------------------------------------------------------
(* processBook on its own: one call, for a book of the reader, a document  *)
(* an earlier pass has left, a cache and a batch lookup                    *)

\* a highlight with the id of SyOne and another text
SyOneOther == SyBlock(<<"1">>, <<"A", "b", " ", "-", " ", "C", "d">>, <<"/", "A", "b", ".",
      "e", "p", "u", "b">>, <<<<"z">>>>)

PbAbAt(timestamp, percent) ==
    [name |-> <<"A", "b", " ", "-", " ", "C", "d", ".", "e", "p", "u", "b", ".", "p",
          "o">>, data |-> timestamp \o <<"*", "3", "@", "0", "#", "1", "2",
                ":">> \o percent \o <<"%">>]

\* the states of the cache directory: the book with no highlight, with one,
\* with that one reworded, with two; not opened, or read to a position on a
\* day
PbDirectories ==
    { Some(<<SyAb(lines)>> \o position) :
        lines \in {<<>>, SyOne, SyOneOther, SyOne \o SyTwo},
        position \in {<<>>, <<PbAbAt(<<"1", "7", "0", "0", "0", "0", "0", "0", "0", "0", "0",
              "0", "0">>, <<"4", "1", ".", "2">>)>>,
                      <<PbAbAt(<<"1", "7", "0", "0", "0", "0", "0", "0", "0", "0", "0", "0",
                            "0">>, <<"5", "0", ".", "0">>)>>,
                      <<PbAbAt(<<"1", "7", "0", "0", "1", "0", "0", "0", "0", "0", "0", "0",
                            "0">>, <<"4", "1", ".", "2">>)>>} }

\* the BookData the reader of the cache directory makes of them
PbBooks(track) ==
    { parseAnnotationFiles(d, track)[1] :
        d \in { e \in PbDirectories : parseAnnotationFiles(e, track) # <<>> } }

\* a document as a version before the digest wrote it: without that line
withoutHash(content) ==
    joinLines(SelectSeq(splitLines(content),
                        LAMBDA line : ~startsWith(line, KeyHighlightsHash)))

\* the documents an earlier pass can have left for the book
PbDocuments(track) ==
    UNION { {generateBookNote(b, SySettings(track), SyDays[1]),
             withoutHash(generateBookNote(b, SySettings(track), SyDays[1]))} :
            b \in PbBooks(TRUE) }

PbPath == <<"A", "b">>

PbKey == <<"A", "b", "|", "C", "d">>

\* the cache: empty; the entry of a lookup that found nothing, and of one
\* that found the book; an entry of a version with three of the fields
PbCaches ==
    { << >>,
      setCachedInfo(<< >>, <<"A", "b">>, <<"C", "d">>, cacheEntryOf(<<"A", "b">>, NoBookInfo)),
      setCachedInfo(<< >>, <<"A", "b">>, <<"C", "d">>, cacheEntryOf(<<"A",
            "b">>, FoundBookInfo)),
      setCachedInfo(<< >>, <<"A", "b">>, <<"C", "d">>,
                    [title |-> <<"A", "b">>, description |-> <<>>, author |-> <<"C", "d">>,
                     publishedDate |-> <<>>, publisher |-> <<>>, pageCount |-> Null]) }

PbInit ==
    /\ \E track \in BOOLEAN :
        /\ pbSettings = SySettings(track)
        /\ pbBook \in PbBooks(track)
        /\ pbVault \in {<< >>} \cup { [p \in {PbPath} |-> doc] : doc \in PbDocuments(track) }
    /\ pbCovers \in {{}, {PbPath \o DotJpg}}
    /\ pbCache \in PbCaches
    /\ pbPrefetched \in {<< >>} \cup [{PbKey} -> LookupResults]
    /\ pbOutcome = << >>
    /\ pbPc = "process"

InitBook == PbInit /\ FsIdle /\ PoIdle /\ DcIdle /\ SyIdle /\ MgIdle /\ RsIdle /\ RdIdle /\ IxIdle

\* one call of processBook
PbProcess ==
    /\ pbPc = "process"
    /\ pbOutcome' = processBook(pbVault, pbCovers, pbCache, pbBook, pbSettings, pbPrefetched,
                                buildTitleCache(titlesOf(pbVault), SyListing(pbVault)),
                                NewResult, [renameThrows |-> FALSE, downloadOk |-> TRUE,
                                            writeThrows |-> FALSE],
                                SyDays[2])
    /\ pbPc' = "done"
    /\ UNCHANGED <<pbVault, pbCovers, pbCache, pbBook, pbSettings, pbPrefetched, notPb>>

PbNext == PbProcess

SpecBook == InitBook /\ [][PbNext]_vars

\* the header of the document of the book, as stored before the call
PbStored == parseFrontmatter(pbVault[PbPath])

PbHighlightsSame ==
    IF PbStored.highlightsHash # <<>>
    THEN PbStored.highlightsHash = computeHighlightsHash(pbBook.highlights)
    ELSE PbStored.highlightsCount = Some(Len(pbBook.highlights))

PbProgressSame == PbStored.progress = pbBook.progress

PbLastReadSame ==
    PbStored.lastRead = (IF IsNull(pbBook.lastReadTimestamp) THEN <<>>
                         ELSE isoDate(Val(pbBook.lastReadTimestamp)))

PbSixKeys ==
    /\ getCacheKey(pbBook.book.title, pbBook.book.author) \in DOMAIN pbCache
    /\ \A f \in {"publishedDate", "publisher", "pageCount", "genres", "series", "language"} :
          f \in DOMAIN pbCache[getCacheKey(pbBook.book.title, pbBook.book.author)]

PbSkipped ==
    /\ pbOutcome.did = "skipped"
    /\ pbOutcome.vault = pbVault
    /\ pbOutcome.result.booksSkipped = 1
    /\ pbOutcome.result.booksUpdated = 0

PbRewritten ==
    /\ pbOutcome.did = "updated"
    /\ pbOutcome.result.booksSkipped = 0
    /\ pbOutcome.result.booksUpdated = 1
    /\ parseFrontmatter(pbOutcome.vault[PbPath]).lastSynced = SyDays[2]

-----------------------------------------------------------------------------
(* Passes over a store that can fail a write: a book that fails, and the   *)
(* books after it                                                          *)

\* cache directories of two books, in either order, and output folders with
\* nothing in them or with a document of the user's
SyFailStarts ==
    { [source |-> d, vault |-> v, track |-> t] :
        d \in { Some(<<SyAb(SyOne), SyAbAt(<<"4", "1", ".", "2">>), SyEf>>),
                Some(<<SyEf, SyAb(SyOne \o SyTwo)>>) },
        v \in { << >>, [p \in {<<"G", "h">>} |-> SyCustomNote] },
        t \in BOOLEAN }

InitFail == SyInit(SyFailStarts, TRUE) /\ FsIdle /\ PoIdle /\ DcIdle /\ RestIdle

NextPass == SyncStart \/ ProcessBook \/ ScanCustom \/ ProcessCustomBook \/ SyncFinish

\* a step of a pass that has started
PassGoesOn == syPc # "idle" /\ NextPass

\* a pass that has started goes on to its end: the function runs on after
\* each await.  This is weak fairness of PassGoesOn, WF_vars(PassGoesOn),
\* with the condition under which a step of the pass is enabled written
\* out: in every state of a pass exactly one of its steps is enabled.
PassIsFair == []<>(syPc = "idle") \/ []<><<PassGoesOn>>_vars

SpecFail == InitFail /\ [][NextPass]_vars /\ PassIsFair

\* the titles of the books the loop has been through
SyTitlesDone == { syBooksWithHighlights[i].book.title : i \in 1..(syBookAt - 1) }

\* the documents whose write failed in the pass
SyFailedPaths == { p \in DOMAIN syDid : syDid[p] = "failed" }

\* in the loop over the books: every book so far is either processed or
\* among failedBooks with its title and an error, and the loop is at the
\* next book
SyFailuresRecorded ==
    syPc = "books" =>
        /\ syResult.booksProcessed + Len(syResult.failedBooks) = syBookAt - 1
        /\ Len(syResult.errors) = Len(syResult.failedBooks)
        /\ \A i \in 1..Len(syResult.failedBooks) :
              /\ DOMAIN syResult.failedBooks[i] = {"title", "error"}
              /\ syResult.failedBooks[i].title \in SyTitlesDone
        /\ syResult.failedBooks = <<>> <=> SyFailedPaths = {}

\* past the loop over the books: all books have had their turn
SyAllBooksTaken ==
    syPc = "custom" =>
        /\ syBookAt = Len(syBooksWithHighlights) + 1
        /\ syResult.booksProcessed + Cardinality(SyFailedPaths)
              >= Len(syBooksWithHighlights)

\* the pass has returned, successfully, with the failure in its result
SyFinishedWithFailure ==
    /\ syPc = "idle"
    /\ syResults # <<>>
    /\ syResults[Len(syResults)].result.success
    /\ syResults[Len(syResults)].result.failedBooks # <<>>

-----------------------------------------------------------------------------
(* The plugin: what starts a pass.  runSync is called by the timer of the  *)
(* startup sync, by a click on the ribbon icon and by the command "Sync    *)
(* Now"; each call that finds the Dropbox path set calls                   *)
(* syncFromMoonReader, which gives way at each await                       *)

\* how often runSync is called in a behaviour
MaxRuns == 3

\* the steps of a pass on the document store, each behind an await
PassSteps == <<"exists", "read", "write", "rename", "create">>

\* the state after onload: the settings are loaded, the ribbon icon is there
\* if showRibbonIcon, the timer is set if syncOnStartup
RsInit ==
    /\ rsSettings \in [dropboxPath : BOOLEAN, showRibbonIcon : BOOLEAN,
                       syncOnStartup : BOOLEAN]
    /\ rsTimer = IF rsSettings.syncOnStartup THEN "pending" ELSE "none"
    /\ rsRuns = <<>>
    /\ rsCalls = 0

InitRun == RsInit /\ FsIdle /\ PoIdle /\ DcIdle /\ SyIdle /\ MgIdle /\ PbIdle /\ RdIdle /\ IxIdle

\* runSync up to its await: without a Dropbox path a notice and nothing
\* else, with one the call of syncFromMoonReader, which is at its first step
runSync ==
    /\ rsCalls < MaxRuns
    /\ rsCalls' = rsCalls + 1
    /\ rsRuns' = IF rsSettings.dropboxPath THEN Append(rsRuns, 1) ELSE rsRuns

\* setTimeout(() => this.runSync(), 2000) comes due
RsStartupSync ==
    /\ rsTimer = "pending"
    /\ rsTimer' = "fired"
    /\ runSync
    /\ UNCHANGED <<rsSettings, notRs>>

\* the callback of the ribbon icon
RsRibbonClick ==
    /\ rsSettings.showRibbonIcon
    /\ runSync
    /\ UNCHANGED <<rsSettings, rsTimer, notRs>>

\* the callback of the command "Sync Now"
RsSyncNow ==
    /\ runSync
    /\ UNCHANGED <<rsSettings, rsTimer, notRs>>

\* an await of a pass is over: the pass is at its next step, or has
\* returned and runSync shows the results
RsPassStep ==
    /\ \E i \in 1..Len(rsRuns) :
        /\ rsRuns[i] <= Len(PassSteps)
        /\ rsRuns' = [rsRuns EXCEPT ![i] = @ + 1]
    /\ UNCHANGED <<rsSettings, rsTimer, rsCalls, notRs>>

RsNext == RsStartupSync \/ RsRibbonClick \/ RsSyncNow \/ RsPassStep

SpecRun == InitRun /\ [][RsNext]_vars

\* the passes that are in progress
RsInProgress == { i \in 1..Len(rsRuns) : rsRuns[i] <= Len(PassSteps) }

\* C14: for every interleaving of the startup sync, the clicks on the ribbon
\* icon and the command "Sync Now", at most one pass of syncFromMoonReader
\* is in progress at any moment.
C14_OnePassAtATime == Cardinality(RsInProgress) <= 1

-----------------------------------------------------------------------------
(* The lookups of a pass and the cache                                     *)

\* the books of the pass for which the batch lookup has been issued
SyLookedUp ==
    { i \in 1..Len(syBooksWithHighlights) :
        syBooksWithHighlights[i].book.title \o <<"|">> \o syBooksWithHighlights[i].book.author
            \in DOMAIN syPrefetchedInfo }

\* the saved cache holds an entry for the book with all six extended fields
SyAttempted(book) ==
    /\ getCacheKey(book.title, book.author) \in DOMAIN syCacheFile
    /\ \A f \in {"publishedDate", "publisher", "pageCount", "genres", "series", "language"} :
          f \in DOMAIN syCacheFile[getCacheKey(book.title, book.author)]

\* C15: once the cache entry of a book has all six extended fields, null or
\* not, no later pass issues a lookup for the book, whether or not a cover
\* file exists for it.
C15_NoRefetchOnceAttempted ==
    \A i \in SyLookedUp : ~SyAttempted(syBooksWithHighlights[i].book)

\* the books the loop has been through whose lookup in this pass failed,
\* both sources giving nothing, and that were not marked before the pass
SyLookupFailed ==
    { i \in SyLookedUp :
        /\ syPc = "books" /\ i < syBookAt
        /\ syPrefetchedInfo[syBooksWithHighlights[i].book.title \o <<"|">>
                            \o syBooksWithHighlights[i].book.author] = NoBookInfo
        /\ ~SyAttempted(syBooksWithHighlights[i].book) }

\* the cache of the pass holds an entry for the book with all six fields
SyMarkedAttempted(book) ==
    /\ getCacheKey(book.title, book.author) \in DOMAIN syCache
    /\ \A f \in {"publishedDate", "publisher", "pageCount", "genres", "series", "language"} :
          f \in DOMAIN syCache[getCacheKey(book.title, book.author)]

\* C16: a book whose lookup fails in a pass, both sources degrading to
\* all-null results, is not marked as attempted by the pass (and so the next
\* pass looks it up again).
C16_FailedLookupNotMarked ==
    \A i \in SyLookupFailed : ~SyMarkedAttempted(syBooksWithHighlights[i].book)

\* what the call leaves behind when the batch lookup holds info for the book
PbOutcomeWith(info) ==
    processBook(pbVault, pbCovers, pbCache, pbBook, pbSettings, [k \in {PbKey} |-> info],
                buildTitleCache(titlesOf(pbVault), SyListing(pbVault)), NewResult,
                [renameThrows |-> FALSE, downloadOk |-> TRUE, writeThrows |-> FALSE],
                SyDays[2])

\* C17: the batch lookup is only an optimisation: when it holds no entry for
\* a book whose metadata has not been attempted, processBook leaves the same
\* documents and cache entries as when the batch lookup supplied the entry,
\* the lookup being made on demand.
C17_PrefetchOnlyOptimisation ==
    pbPc = "done" /\ pbPrefetched = << >> /\ ~PbSixKeys =>
        \E info \in LookupResults :
            /\ pbOutcome.vault = PbOutcomeWith(info).vault
            /\ pbOutcome.cache = PbOutcomeWith(info).cache

\* the header of the document of the book, as the call has left it
PbWritten == parseFrontmatter(pbOutcome.vault[PbPath])

\* C18: when a book has zero highlights, its document exists and tracking
\* is on, the document is kept and the ordinary change detection applies:
\* whenever the progress or the last-read day of the book differs from what
\* the document stores, the document is rewritten with the new values and
\* highlight count 0, whatever highlight count it stored.
C18_TrackedBookUpdated ==
    pbPc = "done" /\ pbBook.highlights = <<>> /\ PbPath \in DOMAIN pbVault
        /\ pbSettings.trackBooksWithoutHighlights =>
            /\ PbPath \in DOMAIN pbOutcome.vault
            /\ ~PbProgressSame \/ ~PbLastReadSame =>
                  /\ PbRewritten
                  /\ PbWritten.highlightsCount = Some(0)
                  /\ PbWritten.progress = pbBook.progress
                  /\ PbWritten.lastRead = (IF IsNull(pbBook.lastReadTimestamp) THEN <<>>
                                           ELSE isoDate(Val(pbBook.lastReadTimestamp)))

\* the document shows as many highlights as the book has, and not the text
\* of each: a highlight has been reworded, the count is the same
PbReworded ==
    /\ PbStored.highlightsCount = Some(Len(pbBook.highlights))
    /\ \E i \in 1..Len(pbBook.highlights) :
          ~includes(pbVault[PbPath], <<">",
                " ">> \o pbBook.highlights[i].originalText \o <<"\n">>)

\* C19: for a document with a stored digest the highlights count as
\* unchanged iff the digest is that of the current highlights; for a
\* document without one, iff the stored count is the current count.  So a
\* highlight reworded with the count unchanged is not detected for a
\* document without digest, and is detected for a document with one.
C19_HashThenCount ==
    pbPc = "done" /\ pbBook.highlights # <<>> /\ PbPath \in DOMAIN pbVault
        /\ PbProgressSame /\ PbLastReadSame /\ PbSixKeys =>
            /\ PbStored.highlightsHash # <<>> =>
                  (PbSkipped <=>
                      PbStored.highlightsHash = computeHighlightsHash(pbBook.highlights))
            /\ PbStored.highlightsHash = <<>> =>
                  (PbSkipped <=> PbStored.highlightsCount = Some(Len(pbBook.highlights)))
            /\ PbReworded => (IF PbStored.highlightsHash = <<>> THEN PbSkipped
                                                                ELSE PbRewritten)

\* a reworded highlight in a document with a digest: rewritten
C19_Witness ==
    /\ pbPc = "done" /\ pbBook.highlights # <<>> /\ PbPath \in DOMAIN pbVault
    /\ PbProgressSame /\ PbLastReadSame /\ PbSixKeys
    /\ PbReworded
    /\ PbStored.highlightsHash # <<>>
    /\ PbRewritten

-----------------------------------------------------------------------------
(* parseAnnotationFiles step by step: the annotation files, then the       *)
(* position files one after the other                                      *)

\* how many files the cache directory holds
RdMaxFiles == 3

RdPosition(name, data) == [name |-> name, data |-> data]

\* the files a cache directory is made of: the highlights of "Ab"; positions
\* of "Ab" from the epub and from the pdf; a position file of "ab" that does
\* not parse; positions of books without highlights, one that parses, one
\* that does not, one with an underscore in its name; the highlights and
\* the position of a book whose title in the annotation data is not the
\* title its file name gives
RdPool ==
    << SyAb(SyOne),
      RdPosition(<<"A", "b", " ", "-", " ", "C", "d", ".", "e", "p", "u", "b", ".", "p",
            "o">>, <<"1", "7", "0", "0", "0", "0", "0", "0", "0", "0", "0", "0", "0", "*",
                  "3", "@", "0", "#", "1", "2", ":", "4", "1", ".", "2", "%">>),
      RdPosition(<<"A", "b", " ", "-", " ", "C", "d", ".", "p", "d", "f", ".", "p",
            "o">>, <<"1", "7", "0", "0", "1", "0", "0", "0", "0", "0", "0", "0", "0", "*",
                  "7", "@", "0", "#", "5", ":", "5", "0", ".", "0", "%">>),
      RdPosition(<<"a", "b", " ", "-", " ", "Z", "z", ".", "e", "p", "u", "b", ".", "p",
            "o">>, <<"n", "o", "t", " ", "a", " ", "p", "o", "s", "i", "t", "i", "o", "n">>),
      RdPosition(<<"G", "h", ".", "e", "p", "u", "b", ".", "p", "o">>, <<"1", "7", "0", "0",
            "0", "0", "0", "0", "0", "0", "0", "0", "0", "*", "1", "@", "0", "#", "2", ":",
                  "9", "%">>),
      RdPosition(<<"G", "h", ".", "p", "d", "f", ".", "p", "o">>, <<"1", "7", "0", "0", "1",
            "0", "0", "0", "0", "0", "0", "0", "0", "*", "2", "@", "0", "#", "2", ":">>),
      RdPosition(<<"E", "_", "f", " ", "-", " ", "I", "j", ".", "e", "p", "u", "b", ".", "p",
            "o">>, <<"1", "7", "0", "0", "1", "0", "0", "0", "0", "0", "0", "0", "0", "*",
                  "4", "@", "0", "#", "1", ":", "7", "7", ".", "5", "%">>),
      SyAnnotations(<<"A", "_", "b", " ", "-", " ", "C", "d", ".", "e", "p", "u", "b", ".",
            "a", "n">>,
                    SyBlock(<<"1">>, <<"A", ":", "b", " ", "-", " ", "C", "d">>,
                            <<"/", "A", "_", "b", ".", "e", "p", "u", "b">>, <<<<"c">>>>)),
      RdPosition(<<"A", "_", "b", " ", "-", " ", "C", "d", ".", "e", "p", "u", "b", ".", "p",
            "o">>, <<"1", "7", "0", "0", "2", "0", "0", "0", "0", "0", "0", "0", "0", "*",
                  "9", "@", "0", "#", "3", ":", "6", "6", ".", "6", "%">>) >>\* the listings: files of the pool, each at most once, in any order, as
\* the places the files have in the pool
RdListings ==
    { places \in UNION { [1..n -> 1..Len(RdPool)] : n \in 0..RdMaxFiles } :
        \A i, j \in 1..Len(places) : i # j => places[i] # places[j] }

RdInit ==
    /\ \E places \in RdListings : rdFiles = [k \in 1..Len(places) |-> RdPool[places[k]]]
    /\ rdTrack \in BOOLEAN
    /\ rdMap = <<>>
    /\ rdAt = 0
    /\ rdResult = <<>>
    /\ rdPc = "an"

InitRead == RdInit /\ FsIdle /\ PoIdle /\ DcIdle /\ SyIdle /\ MgIdle /\ PbIdle /\ RsIdle /\ IxIdle

\* the loop over the .an files
RdAnnotations ==
    /\ rdPc = "an"
    /\ rdMap' = readAnnotationFiles(rdFiles, 1, <<>>)
    /\ rdAt' = 1
    /\ rdPc' = "po"
    /\ UNCHANGED <<rdFiles, rdTrack, rdResult, notRd>>

\* one turn of the loop over the .po files; the listing is filtered to them
RdProgress ==
    /\ rdPc = "po"
    /\ rdAt <= Len(rdFiles)
    /\ rdMap' = IF endsWith(rdFiles[rdAt].name, DotPo)
                THEN addProgressFile(rdMap, rdFiles[rdAt], rdTrack)
                ELSE rdMap
    /\ rdAt' = rdAt + 1
    /\ UNCHANGED <<rdFiles, rdTrack, rdResult, rdPc, notRd>>

\* the highlights sorted, the values of the map returned
RdReturn ==
    /\ rdPc = "po"
    /\ rdAt > Len(rdFiles)
    /\ rdResult' = sortedBooks(rdMap)
    /\ rdPc' = "done"
    /\ UNCHANGED <<rdFiles, rdTrack, rdMap, rdAt, notRd>>

RdNext == RdAnnotations \/ RdProgress \/ RdReturn

SpecRead == InitRead /\ [][RdNext]_vars

\* the key a position file is filed under: its name without the extension,
\* up to the first " - ", underscores for spaces, in lower case
RdBaseName(name) == dropSuffix(dropSuffix(name, <<".", "e", "p", "u", "b", ".", "p",
      "o">>), <<".", "p", "d", "f", ".", "p", "o">>)

RdKey(name) ==
    toLowerCase(progressTitle(firstPart(RdBaseName(name),
                                        indexOf(RdBaseName(name), <<" ", "-", " ">>, 1))))

\* the records of the map under a key
RdUnder(map, key) == { i \in 1..Len(map) : map[i].key = key }

\* the record has the values of the position
RdHasPosition(data, position) ==
    /\ data.progress = Some(position.progress)
    /\ data.currentChapter = Some(position.chapter)
    /\ data.lastReadTimestamp = Some(position.timestamp)

\* the turn of the loop for a position file, by what the file holds and
\* what the map holds under its key
RdMerged(file, position, key) ==
    IF IsNull(position) THEN rdMap' = rdMap
    ELSE IF RdUnder(rdMap, key) # {}
    THEN /\ Len(rdMap') = Len(rdMap)
         /\ \A i \in 1..Len(rdMap) :
               IF i \in RdUnder(rdMap, key)
               THEN /\ RdHasPosition(rdMap'[i].data, Val(position))
                    /\ rdMap'[i].key = key
                    /\ rdMap'[i].data.book = rdMap[i].data.book
                    /\ rdMap'[i].data.highlights = rdMap[i].data.highlights
               ELSE rdMap'[i] = rdMap[i]
    ELSE IF rdTrack
    THEN /\ Len(rdMap') = Len(rdMap) + 1
         /\ SubSeq(rdMap', 1, Len(rdMap)) = rdMap
         /\ rdMap'[Len(rdMap')].key = key
         /\ rdMap'[Len(rdMap')].data.highlights = <<>>
         /\ toLowerCase(rdMap'[Len(rdMap')].data.book.title) = key
         /\ RdHasPosition(rdMap'[Len(rdMap')].data, Val(position))
    ELSE rdMap' = rdMap

RdTurn ==
    rdPc = "po" /\ rdAt <= Len(rdFiles) /\ rdAt' = rdAt + 1
        /\ endsWith(rdFiles[rdAt].name, <<".", "p", "o">>) =>
            RdMerged(rdFiles[rdAt], parseProgressFile(rdFiles[rdAt].data),
                     RdKey(rdFiles[rdAt].name))

\* the position files of the listing under a key that parse
RdParsed(key) ==
    { i \in 1..Len(rdFiles) :
        /\ endsWith(rdFiles[i].name, <<".", "p", "o">>)
        /\ RdKey(rdFiles[i].name) = key
        /\ ~IsNull(parseProgressFile(rdFiles[i].data)) }

RdLast(key) == CHOOSE i \in RdParsed(key) : \A j \in RdParsed(key) : j <= i

\* of the books returned, each has the position of the last file of its
\* key that parses
RdLastWins ==
    rdPc = "done" =>
        \A k \in 1..Len(rdResult) :
            IF RdParsed(toLowerCase(rdResult[k].book.title)) = {}
            THEN /\ IsNull(rdResult[k].progress)
                 /\ IsNull(rdResult[k].currentChapter)
                 /\ IsNull(rdResult[k].lastReadTimestamp)
            ELSE RdHasPosition(rdResult[k],
                     Val(parseProgressFile(
                            rdFiles[RdLast(toLowerCase(rdResult[k].book.title))].data)))

\* C20: for each position file that parses, a record that exists under the
\* key of the file name has its progress, chapter and last-read timestamp
\* overwritten by the file's (the last file of a key wins); without such a
\* record a new one with no highlights is made if and only if tracking is
\* on; a position file that does not parse changes nothing.
C20_PositionMerge == [][RdTurn]_vars /\ []RdLastWins

\* a book with highlights and two position files that parse, the second
\* of which has won
C20_Witness ==
    /\ rdPc = "done"
    /\ \E k \in 1..Len(rdResult) :
          /\ rdResult[k].highlights # <<>>
          /\ Cardinality(RdParsed(toLowerCase(rdResult[k].book.title))) = 2
          /\ rdResult[k].progress
                # Some(Val(parseProgressFile(
                        rdFiles[CHOOSE i \in RdParsed(toLowerCase(rdResult[k].book.title)) :
                                  i # RdLast(toLowerCase(rdResult[k].book.title))].data)).progress)

-----------------------------------------------------------------------------
(* SpecNum: parseAnnotationFile on blocks one numeric line of which is
   written freely *)

\* the lines of a block that are read with parseInt: id, chapter, position,
\* length, color, timestamp
DnNumericLines == {2, 6, 8, 9, 10, 11}

\* what a numeric line may hold
DnWritten == { <<"4", "2">>, <<"-", "7">>, <<>>, <<"x">>, <<"a", "b", "c">>, <<"7",
      "y">>, <<" ", "5">>, <<"1", ".", "5">>, <<"-", "-", "3">> }

\* the block every block of a file is a variation of: one line of text
DnPlain == [payload |-> <<DcLineA>>, blanks |-> 0, trailing |-> <<Zero>>]

DnBlockKinds == { [line |-> l, written |-> w] : l \in DnNumericLines, w \in DnWritten }

DnLines(blocks) ==
    [k \in 1..Len(blocks) |->
        [DcBlockLines(DnPlain, k) EXCEPT ![blocks[k].line] = blocks[k].written]]

RECURSIVE DnAllLines(_, _)
DnAllLines(blockLines, k) ==
    IF k > Len(blockLines) THEN <<>>
    ELSE blockLines[k] \o DnAllLines(blockLines, k + 1)

DnInit ==
    /\ \E n \in 1..MaxBlocks : dcBlocks \in [1..n -> DnBlockKinds]
    /\ dcFilename = <<"A", "b", " ", "-", " ", "C", "d", ".", "e", "p", "u", "b", ".", "a",
          "n">>
    /\ dcData = [ok |-> TRUE, text |-> DcJoin(DnAllLines(DnLines(dcBlocks), 1))]
    /\ dcResult = Null
    /\ dcPc = "parse"

InitNum == DnInit /\ FsIdle /\ PoIdle /\ SyIdle /\ RestIdle

SpecNum == InitNum /\ [][DcNext]_vars

\* ^-?\d+$
DnValidInteger(s) ==
    /\ s # <<>>
    /\ \/ AllDigits(s, 1, Len(s))
       \/ Len(s) > 1 /\ s[1] = "-" /\ AllDigits(s, 2, Len(s))

\* the numeric field of a highlight that is read from a line of its block
DnField(highlight, line) ==
    CASE line = 2 -> highlight.id
      [] line = 6 -> highlight.chapter
      [] line = 8 -> highlight.position
      [] line = 9 -> highlight.highlightLength
      [] line = 10 -> highlight.highlightColor
      [] line = 11 -> highlight.timestamp

DnIsInteger(field) == field # NaN

\* C21: a numeric line of a block that is not a valid integer is stored as
\* 0, the record of the block is emitted all the same and the blocks after
\* it are read; every numeric field of every record is an integer.
C21_MalformedIsZero ==
    dcPc = "done" /\ dcBlocks # <<>> /\ dcBlocks[1] \in DnBlockKinds =>
        /\ ~IsNull(dcResult)
        /\ Len(Val(dcResult).highlights) = Len(dcBlocks)
        /\ \A k \in 1..Len(dcBlocks) :
              /\ \A l \in DnNumericLines :
                    DnIsInteger(DnField(Val(dcResult).highlights[k], l))
              /\ ~DnValidInteger(dcBlocks[k].written) =>
                    DnField(Val(dcResult).highlights[k], dcBlocks[k].line) = Zero

-----------------------------------------------------------------------------
(* SpecGenres: fetchBookInfo on results that differ in their genres only *)

\* how many genres a source returns at most
MgMaxGenres == 2

MgGenrePool == { <<"S", "f">>, <<"s", "f">>, <<"S", "F">>, <<"E", "p", "i", "c">> }

\* the genres of a source: null, or a list that is not empty (the subjects,
\* the categories as the service returned them)
MgGenreLists ==
    {Null} \cup { Some(list) : list \in UNION { [1..n -> MgGenrePool] : n \in 1..MgMaxGenres } }

MgNone(full) == [f \in DOMAIN full |-> <<>>]

MgGenresInit ==
    /\ \E genres \in MgGenreLists :
          mgOpenLibrary = [MgNone(OpenLibraryFull) EXCEPT !.genres = genres]
    /\ \E genres \in MgGenreLists :
          mgGoogleBooks = [MgNone(GoogleBooksFull) EXCEPT !.genres = genres]
    /\ mgResult = << >>
    /\ mgPc = "fetch"

InitGenres ==
    MgGenresInit /\ FsIdle /\ PoIdle /\ DcIdle /\ SyIdle /\ PbIdle /\ RsIdle /\ RdIdle /\ IxIdle

SpecGenres == InitGenres /\ [][MgNext]_vars

\* a nullable list as a list
MgList(genres) == IF IsNull(genres) THEN <<>> ELSE Val(genres)

MgSameGenre(a, b) == toLowerCase(a) = toLowerCase(b)

\* C22: the merged genres are the union of the two lists, those of Google
\* Books first, no two of them equal ignoring case, whatever the two lists
\* are (a list may repeat a genre); they are null when both are empty.
C22_GenreUnion ==
    mgPc = "done" =>
        /\ SubSeq(MgList(mgResult.genres), 1, Len(MgList(mgGoogleBooks.genres)))
              = MgList(mgGoogleBooks.genres)
        /\ \A i \in 1..Len(MgList(mgOpenLibrary.genres)) :
              \E k \in 1..Len(MgList(mgResult.genres)) :
                  MgSameGenre(MgList(mgResult.genres)[k], MgList(mgOpenLibrary.genres)[i])
        /\ \A k \in 1..Len(MgList(mgResult.genres)) :
              \/ \E i \in 1..Len(MgList(mgGoogleBooks.genres)) :
                    MgList(mgResult.genres)[k] = MgList(mgGoogleBooks.genres)[i]
              \/ \E i \in 1..Len(MgList(mgOpenLibrary.genres)) :
                    MgList(mgResult.genres)[k] = MgList(mgOpenLibrary.genres)[i]
        /\ \A j, k \in 1..Len(MgList(mgResult.genres)) :
              j # k => ~MgSameGenre(MgList(mgResult.genres)[j], MgList(mgResult.genres)[k])
        /\ IsNull(mgResult.genres)
              <=> MgList(mgGoogleBooks.genres) = <<>> /\ MgList(mgOpenLibrary.genres) = <<>>

-----------------------------------------------------------------------------
(* The index note and the base file: mergeBookLists, generateIndexNote,
   updateIndexNote, updateBaseFile and the end of syncFromMoonReader *)

\* filePath.split("/").pop(), less a ".md" at its end
actualFilename(filePath) ==
    LET slashes == { k \in 1..Len(filePath) : filePath[k] = "/" }
        from == IF slashes = {} THEN 1
                ELSE 1 + CHOOSE k \in slashes : \A j \in slashes : j <= k
    IN  dropSuffix(SubSeq(filePath, from, Len(filePath)), <<".", "m", "d">>)

\* highlights that stand for a count
placeholderHighlights(count) ==
    [i \in 1..count |-> [id |-> i - 1, note |-> <<>>, originalText |-> <<>>]]

scannedBookToBookData(scanned) ==
    [newBookData(scanned.title, actualFilename(scanned.filePath), scanned.author) EXCEPT
        !.highlights = placeholderHighlights(scanned.highlightsCount),
        !.progress = scanned.progress,
        !.coverPath = scanned.coverPath]

\* moonReaderMap.set(key, book) for each book of the result: a key keeps the
\* place of its first book and holds its last; at is the index of the book
RECURSIVE moonReaderMapFrom(_, _, _)
moonReaderMapFrom(books, i, map) ==
    IF i > Len(books) THEN map
    ELSE moonReaderMapFrom(books, i + 1,
            IF mapIndex(map, toLowerCase(books[i].book.title)) # 0
            THEN [map EXCEPT ![mapIndex(map, toLowerCase(books[i].book.title))].data = i]
            ELSE Append(map, [key |-> toLowerCase(books[i].book.title), data |-> i]))

\* findMoonReaderBook: the index of the book of the exact key, else of the
\* first key that starts with the title or that the title starts with, else 0
findMoonReaderBook(map, scannedLower) ==
    IF mapIndex(map, scannedLower) # 0 THEN map[mapIndex(map, scannedLower)].data
    ELSE LET prefixed == { k \in 1..Len(map) : \/ startsWith(scannedLower, map[k].key)
                                               \/ startsWith(map[k].key, scannedLower) }
         IN  IF prefixed = {} THEN 0
             ELSE map[CHOOSE k \in prefixed : \A j \in prefixed : k <= j].data

\* the turn of the loop over the scanned books
mergeScanned(result, map, scanned, at) ==
    IF at # 0
    THEN [result EXCEPT ![at].book.filename = actualFilename(scanned.filePath),
                        ![at].book.title = scanned.title,
                        ![at].coverPath = IF scanned.coverPath # <<>> THEN scanned.coverPath
                                          ELSE @]
    ELSE Append(result, scannedBookToBookData(scanned))

RECURSIVE mergeBookListsFrom(_, _, _, _)
mergeBookListsFrom(result, map, scannedBooks, i) ==
    IF i > Len(scannedBooks) THEN result
    ELSE mergeBookListsFrom(
            mergeScanned(result, map, scannedBooks[i],
                         findMoonReaderBook(map, toLowerCase(scannedBooks[i].title))),
            map, scannedBooks, i + 1)

mergeBookLists(moonReaderBooks, scannedBooks) ==
    mergeBookListsFrom(moonReaderBooks, moonReaderMapFrom(moonReaderBooks, 1, <<>>),
                       scannedBooks, 1)

\* the order of the characters of the titles under localeCompare
Collation == <<" ", "0", "1", "2", "3", "4", "5", "6", "7", "8", "9", "a", "b", "c", "d", "e",
      "f", "g", "h", "i", "j", "k", "l", "m", "n", "o", "p", "q", "r", "s", "t", "u", "v",
            "w", "x", "y", "z">>

collationOf(c) == IF \E k \in 1..Len(Collation) : Collation[k] = c
                  THEN CHOOSE k \in 1..Len(Collation) : Collation[k] = c
                  ELSE 0

\* a.localeCompare(b) < 0, = 0, > 0 as -1, 0, 1
localeCompare(a, b) ==
    LET differ == { k \in 1..Min2(Len(a), Len(b)) : a[k] # b[k] }
        first == CHOOSE k \in differ : \A j \in differ : k <= j
    IN  IF differ = {}
        THEN (IF Len(a) < Len(b) THEN -1 ELSE IF Len(a) > Len(b) THEN 1 ELSE 0)
        ELSE IF collationOf(a[first]) < collationOf(b[first]) THEN -1 ELSE 1

RECURSIVE insertByTitle(_, _)
insertByTitle(sorted, book) ==
    IF sorted = <<>> THEN <<book>>
    ELSE IF localeCompare(toLowerCase(sorted[Len(sorted)].book.title),
                          toLowerCase(book.book.title)) <= 0
    THEN Append(sorted, book)
    ELSE Append(insertByTitle(SubSeq(sorted, 1, Len(sorted) - 1), book), sorted[Len(sorted)])

RECURSIVE sortByTitle(_, _, _)
sortByTitle(books, i, sorted) ==
    IF i > Len(books) THEN sorted
    ELSE sortByTitle(books, i + 1, insertByTitle(sorted, books[i]))

RECURSIVE sumHighlights(_, _)
sumHighlights(books, i) ==
    IF i > Len(books) THEN 0 ELSE Len(books[i].highlights) + sumHighlights(books, i + 1)

\* - [[filename|title]] by author -- n highlights
indexLine(bookData) ==
    <<"-", " ", "[", "[">>
    \o (IF bookData.book.filename # <<>> /\ ~includes(bookData.book.filename, <<"/">>)
        THEN bookData.book.filename
        ELSE generateFilename(bookData.book.title))
    \o <<"|">> \o bookData.book.title \o <<"]", "]">>
    \o (IF bookData.book.author # <<>> THEN <<" ", "b", "y",
          " ">> \o bookData.book.author ELSE <<>>)
    \o <<" ", "-", "-", " ">> \o toDigits(Len(bookData.highlights)) \o <<" ", "h", "i", "g",
          "h", "l", "i", "g", "h", "t", "s">>

\* the index note of books that have no cover shown, no note and no
\* progress: the heading, the summary, the books by title
generateIndexNote(books, indexNoteTitle) ==
    joinLines(<<<<"#", " ">> \o indexNoteTitle, <<>>,
                <<"#", "#", " ", "S", "u", "m", "m", "a", "r", "y">>,
                <<"-", " ", "*", "*", "B", "o", "o", "k", "s", ":", "*", "*",
                      " ">> \o toDigits(Len(books)),
                <<"-", " ", "*", "*", "H", "i", "g", "h", "l", "i", "g", "h", "t", "s", ":",
                      "*", "*", " ">> \o toDigits(sumHighlights(books, 1)),
                <<"-", " ", "*", "*", "N", "o", "t", "e", "s", ":", "*", "*", " ", "0">>,
                <<>>,
                <<"#", "#", " ", "B", "o", "o", "k", "s">>>>
              \o [k \in 1..Len(books) |-> indexLine(sortByTitle(books, 1, <<>>)[k])]
              \o << <<>> >>)

\* the filters of the base file; the properties and views that follow them
\* are the same text in every base file
generateBaseFile(outputFolder, indexNoteTitle, baseFileName) ==
    joinLines(<<<<"f", "i", "l", "t", "e", "r", "s", ":">>, <<" ", " ", "a", "n", "d", ":">>,
                <<" ", " ", " ", " ", "-", " ", "f", "i", "l", "e", ".", "f", "o", "l", "d",
                      "e", "r", " ", "=", "=", " ", "\"">> \o outputFolder \o <<"\"">>,
                <<" ", " ", " ", " ", "-", " ", "f", "i", "l", "e", ".", "n", "a", "m", "e",
                      " ", "!", "=", " ", "\"">> \o indexNoteTitle \o <<"\"">>,
                <<" ", " ", " ", " ", "-", " ", "f", "i", "l", "e", ".", "n", "a", "m", "e",
                      " ", "!", "=", " ", "\"">> \o baseFileName \o <<"\"">>,
                <<" ", " ", " ", " ", "-", " ", "f", "i", "l", "e", ".", "e", "x", "t", " ",
                      "=", "=", " ", "\"", "m", "d", "\"">>,
                <<"p", "r", "o", "p", "e", "r", "t", "i", "e", "s", ":">>>>)

-----------------------------------------------------------------------------
(* SpecIndex: syncFromMoonReader from the end of its loops *)

\* how many books were decoded, how many documents the scan finds
IxMaxBooks == 2

IxMaxScanned == 2

OutputFolder == <<"B", "o", "o", "k", "s">>

IndexNoteTitle == <<"I", "n", "d", "e", "x">>

BaseFileName == <<"B", "a", "s", "e">>

IndexPath == OutputFolder \o <<"/">> \o IndexNoteTitle \o <<".", "m", "d">>

BaseFilePath == OutputFolder \o <<"/">> \o BaseFileName \o <<".", "b", "a", "s", "e">>

IxBook(title, author) ==
    [newBookData(title, <<"/", "s", "d", "c", "a", "r", "d", "/">> \o title \o <<".", "e",
          "p", "u", "b">>, author) EXCEPT
        !.highlights = placeholderHighlights(1)]

IxBookPool == { IxBook(<<"D", "u", "n", "e">>, <<"C", "d">>), IxBook(<<"D", "u", "n", "e",
      " ", "M", "e", "s", "s", "i", "a", "h">>, <<"C", "d">>), IxBook(<<"E", "m", "m",
            "a">>, <<"I", "j">>) }

IxScannedBook(title, author, name, isMoonReader) ==
    [title |-> title, author |-> author, progress |-> Null, highlightsCount |-> 1,
     coverPath |-> <<>>, filePath |-> OutputFolder \o <<"/">> \o name \o <<".", "m", "d">>,
     isMoonReader |-> isMoonReader]

\* the documents of the decoded books, and documents of the user's: of a
\* book whose title goes on from a decoded title, of one whose title is the
\* start of one, of one that has nothing in common with any
IxScannedPool ==
    { IxScannedBook(<<"D", "u", "n", "e">>, <<"C", "d">>, <<"D", "u", "n", "e">>, TRUE),
      IxScannedBook(<<"D", "u", "n", "e", " ", "M", "e", "s", "s", "i", "a", "h">>, <<"C",
            "d">>, <<"D", "u", "n", "e", " ", "M", "e", "s", "s", "i", "a", "h">>, TRUE),
      IxScannedBook(<<"E", "m", "m", "a">>, <<"I", "j">>, <<"E", "m", "m", "a">>, TRUE),
      IxScannedBook(<<"D", "u", "n", "e", " ", "M", "e", "s", "s", "i", "a", "h">>, <<"C",
            "d">>, <<"D", "u", "n", "e", " ", "2">>, FALSE),
      IxScannedBook(<<"E", "m">>, <<"K", "l">>, <<"E", "m">>, FALSE),
      IxScannedBook(<<"P", "e", "r", "s", "u", "a", "s", "i", "o", "n">>, <<"I", "j">>, <<"P",
            "e", "r", "s", "u", "a", "s", "i", "o", "n">>, FALSE) }

IxLists(pool, from, to) ==
    { list \in UNION { [1..n -> pool] : n \in from..to } :
        \A i, j \in 1..Len(list) : i # j => list[i] # list[j] }

\* the counters of a pass that changed no document, made one, updated one,
\* deleted one
IxResults ==
    { NewResult,
      [NewResult EXCEPT !.booksCreated = 1],
      [NewResult EXCEPT !.booksUpdated = 1],
      [NewResult EXCEPT !.booksDeleted = 1] }

\* the index note and the base file as an earlier pass left them, or not there
IxVaults ==
    { v \in [{IndexPath, BaseFilePath} -> {Null, Some(<<"s", "t", "a", "l", "e">>)}] : TRUE }

IxInit ==
    /\ ixBooks \in IxLists(IxBookPool, 1, IxMaxBooks)
    /\ ixScanned \in IxLists(IxScannedPool, 0, IxMaxScanned)
    /\ ixSettings \in [showIndex : BOOLEAN, generateBaseFile : BOOLEAN]
    /\ ixResult \in IxResults
    /\ ixVault \in IxVaults
    /\ ixBefore = ixVault
    /\ ixMerged = <<>>
    /\ ixPc = "index"

InitIndex ==
    IxInit /\ FsIdle /\ PoIdle /\ DcIdle /\ SyIdle /\ MgIdle /\ PbIdle /\ RsIdle /\ RdIdle

\* scannedBooks.filter((b) => !b.filePath.endsWith(indexFilename))
filteredScanned(scannedBooks) ==
    SelectSeq(scannedBooks, LAMBDA b : ~endsWith(b.filePath, IndexNoteTitle \o <<".", "m",
          "d">>))

\* result.booksCreated > 0 || result.booksUpdated > 0 || result.booksDeleted > 0
\* || !exists || hasManualBooks
regenerateIfMissing(result, exists, hasManualBooks) == ~exists

shouldRegenerate(result, exists, hasManualBooks) ==
    \/ result.booksCreated > 0 \/ result.booksUpdated > 0 \/ result.booksDeleted > 0
    \/ ~exists
    \/ hasManualBooks

\* catch (error) of syncFromMoonReader
IxThrown ==
    /\ ixResult' = [ixResult EXCEPT !.errors = Append(@, "Sync failed")]
    /\ ixPc' = "done"

\* if (settings.showIndex) { ... updateIndexNote ... }: the store may fail
\* the write
IxUpdateIndex ==
    /\ ixPc = "index"
    /\ IF ~ixSettings.showIndex
       THEN ixPc' = "base" /\ UNCHANGED <<ixResult, ixVault, ixMerged>>
       ELSE LET manualBookCount == Len(filteredScanned(ixScanned)) - Len(ixBooks)
                counted == IF manualBookCount > 0
                           THEN [ixResult EXCEPT !.manualBooksAdded = manualBookCount]
                           ELSE ixResult
            IN  IF shouldRegenerate(ixResult, ~IsNull(ixVault[IndexPath]),
                                    manualBookCount > 0)
                THEN \E writeThrows \in BOOLEAN :
                        /\ ixMerged' = mergeBookLists(ixBooks, filteredScanned(ixScanned))
                        /\ IF writeThrows
                           THEN /\ ixResult' = [counted EXCEPT
                                                  !.errors = Append(@, "Sync failed")]
                                /\ ixPc' = "done"
                                /\ UNCHANGED ixVault
                           ELSE /\ ixVault' = [ixVault EXCEPT ![IndexPath] =
                                     Some(generateIndexNote(
                                            mergeBookLists(ixBooks, filteredScanned(ixScanned)),
                                            IndexNoteTitle))]
                                /\ ixResult' = counted
                                /\ ixPc' = "base"
                ELSE /\ ixResult' = counted
                     /\ ixPc' = "base"
                     /\ UNCHANGED <<ixVault, ixMerged>>
    /\ UNCHANGED <<ixBooks, ixScanned, ixSettings, ixBefore, notIx>>

\* if (settings.generateBaseFile) { ... updateBaseFile ... }
IxUpdateBase ==
    /\ ixPc = "base"
    /\ IF ixSettings.generateBaseFile
          /\ shouldRegenerate(ixResult, ~IsNull(ixVault[BaseFilePath]), FALSE)
       THEN \E writeThrows \in BOOLEAN :
               IF writeThrows THEN IxThrown /\ UNCHANGED ixVault
               ELSE /\ ixVault' = [ixVault EXCEPT ![BaseFilePath] =
                         Some(generateBaseFile(OutputFolder, IndexNoteTitle, BaseFileName))]
                    /\ ixPc' = "return"
                    /\ UNCHANGED ixResult
       ELSE ixPc' = "return" /\ UNCHANGED <<ixResult, ixVault>>
    /\ UNCHANGED <<ixBooks, ixScanned, ixSettings, ixBefore, ixMerged, notIx>>

\* result.success = true; return result
IxReturn ==
    /\ ixPc = "return"
    /\ ixResult' = [ixResult EXCEPT !.success = TRUE]
    /\ ixPc' = "done"
    /\ UNCHANGED <<ixBooks, ixScanned, ixSettings, ixVault, ixBefore, ixMerged, notIx>>

IxNext == IxUpdateIndex \/ IxUpdateBase \/ IxReturn

SpecIndex == InitIndex /\ [][IxNext]_vars

\* a document of the pass was created, updated or deleted
IxChanged ==
    ixResult.booksCreated > 0 \/ ixResult.booksUpdated > 0 \/ ixResult.booksDeleted > 0

IxRewritten(path, content) ==
    ixVault[path] = Some(content) /\ content # <<"s", "t", "a", "l", "e">>

IxBelongs(scanned, bookData) == toLowerCase(scanned.title) = toLowerCase(bookData.book.title)

\* the scanned documents that belong to no decoded book
IxOthers ==
    { k \in 1..Len(filteredScanned(ixScanned)) :
        \A i \in 1..Len(ixBooks) : ~IxBelongs(filteredScanned(ixScanned)[k], ixBooks[i]) }

\* C29: the list handed to the renderer of the index has one entry for each
\* decoded book and one for each scanned document that belongs to no
\* decoded book; a document whose title starts with the title of a decoded
\* book, or is the start of it, is not merged into that book, and the title
\* and the file name of a decoded book are not replaced by those of the
\* document of another book.
C29_IndexCoversEachOnce ==
    ixMerged # <<>> =>
        /\ Len(ixMerged) = Len(ixBooks) + Cardinality(IxOthers)
        /\ \A i \in 1..Len(ixBooks) :
              /\ toLowerCase(ixMerged[i].book.title) = toLowerCase(ixBooks[i].book.title)
              /\ \A k \in IxOthers :
                    ixMerged[i].book.filename
                        # actualFilename(filteredScanned(ixScanned)[k].filePath)
        /\ \A k \in IxOthers :
              \E i \in (Len(ixBooks) + 1)..Len(ixMerged) :
                  /\ ixMerged[i].book.title = filteredScanned(ixScanned)[k].title
                  /\ ixMerged[i].book.filename
                        = actualFilename(filteredScanned(ixScanned)[k].filePath)

-----------------------------------------------------------------------------
(* The custom-book pass and the cache *)

\* the custom documents the loop has dealt with
SyCustomDone == { syCustomBooks[k] : k \in 1..(syCustomAt - 1) }

\* C24: once the custom-book pass has looked a custom document up, the
\* cache entry of its title and author has all six extended keys, also when
\* the lookup found nothing; so a document the loop has dealt with either
\* declares custom metadata or has such an entry.
C24_CustomBookMarkedAttempted ==
    syPc = "custom" =>
        \A book \in SyCustomDone :
            \/ declaresCustomMetadata(syVault[book.filePath])
            \/ hasFields(getCachedInfo(syCache, book.title, book.author), AttemptedFields)

-----------------------------------------------------------------------------
(* SpecShare: passes over books whose titles are close *)

\* a book whose title gives the file name of the book "Ab": "A:b" by "Cd"
SyColon ==
    SyAnnotations(<<"A", "_", "b", " ", "-", " ", "C", "d", ".", "e", "p", "u", "b", ".", "a",
          "n">>,
                  SyBlock(<<"1">>, <<"A", ":", "b", " ", "-", " ", "C", "d">>, <<"/", "A",
                        "_", "b", ".", "e", "p", "u", "b">>, <<<<"c">>>>))

\* the volumes of a series, "Abcd1" and "Abcd2"
SyVolume(n) ==
    SyAnnotations(<<"A", "b", "c", "d">> \o n \o <<".", "e", "p", "u", "b", ".", "a", "n">>,
                  SyBlock(<<"1">>, <<"A", "b", "c", "d">> \o n, <<"/", "A", "b", "c",
                        "d">> \o n \o <<".", "e", "p", "u", "b">>, <<<<"v">> \o n>>))

SyShareStarts ==
    { [source |-> d, vault |-> v, track |-> FALSE] :
        d \in { Some(<<SyAb(SyOne), SyColon>>), Some(<<SyVolume(<<"1">>)>>),
                Some(<<SyVolume(<<"1">>), SyVolume(<<"2">>)>>) },
        v \in { << >>, [p \in {<<"G", "h">>} |-> SyCustomNote] } }

InitShare == SyInit(SyShareStarts, FALSE) /\ FsIdle /\ PoIdle /\ DcIdle /\ RestIdle

\* Between two passes the reader writes the file of the second volume,
\* which the directory lists before that of the first
ReaderAddsVolume ==
    /\ syPc = "idle"
    /\ syResults # <<>> /\ Len(syResults) < MaxPasses
    /\ sySource = Some(<<SyVolume(<<"1">>)>>)
    /\ sySource' = Some(<<SyVolume(<<"2">>), SyVolume(<<"1">>)>>)
    /\ syQuiet' = FALSE
    /\ UNCHANGED <<syVault, syFolderExists, syCovers, syCacheFile, sySettings, syToday,
                   syStoreFails, passVars, syResults, syBefore, syUserNotes, syProtected,
                   syDropped, syDid, syAuthored, syUsed, notSy>>

NextShare == NextPass \/ ReaderAddsVolume

SpecShare == InitShare /\ [][NextShare]_vars

\* the decoded books of the pass whose document was in the output folder,
\* under their file name and with their title, when the pass started
SyOwnDocuments ==
    { i \in 1..Len(syBooksWithHighlights) :
        /\ generateFilename(syBooksWithHighlights[i].book.title) \in DOMAIN syBefore
        /\ parseFrontmatter(syBefore[generateFilename(syBooksWithHighlights[i].book.title)]).title
              = syBooksWithHighlights[i].book.title }

\* C25: in a pass no two decoded books resolve to the same document, by the
\* path of their file name or by a title that is close: the documents the
\* books of the pass have resolved to are as many as the books, and the
\* document of a book is not taken away under it by another book.
C25_NoSharedDocument ==
    syPc = "books" =>
        /\ Cardinality(DOMAIN syDid) = syBookAt - 1
        /\ \A i \in SyOwnDocuments :
              \/ generateFilename(syBooksWithHighlights[i].book.title) \in DOMAIN syVault
              \/ i < syBookAt

-----------------------------------------------------------------------------
(* Documents the user made *)

\* C26: a document whose header says manual_note: true still says so after
\* a pass has updated it, so that later passes merge into it again.
C26_ManualStaysManual ==
    \A p \in DOMAIN syAuthored :
        p \in DOMAIN syVault => parseFrontmatter(syVault[p]).isManualNote

-----------------------------------------------------------------------------
(* SpecTaken: passes over an output folder in which the path of a book is
   taken by a document the user wrote *)

\* a document without a header, and one whose header has a title and an
\* author and no highlights_count
SyPlainNote == <<"#", " ", "A", "b", "\n", "M", "i", "n", "e", "\n">>

SyHeaderNote == <<"-", "-", "-", "\n", "t", "i", "t", "l", "e", ":", " ", "\"", "A", "b",
      "\"", "\n", "a", "u", "t", "h", "o", "r", ":", " ", "\"", "C", "d", "\"", "\n", "-",
            "-", "-", "\n", "#", " ", "A", "b", "\n", "M", "i", "n", "e", "\n">>

SyTakenStarts ==
    { [source |-> d, vault |-> v, track |-> t] :
        d \in { Some(<<SyAb(SyOne), SyAbAt(<<"4", "1", ".", "2">>)>>),
                Some(<<SyAb(SyOne \o SyTwo), SyEf>>) },
        v \in { [p \in {<<"A", "b">>} |-> SyPlainNote], [p \in {<<"A", "b">>} |-> SyHeaderNote],
                [p \in {<<"A", "b">>, <<"G", "h">>} |-> IF p = <<"A",
                      "b">> THEN SyPlainNote ELSE SyCustomNote] },
        t \in BOOLEAN }

InitTaken == SyInit(SyTakenStarts, FALSE) /\ FsIdle /\ PoIdle /\ DcIdle /\ RestIdle

SpecTaken == InitTaken /\ [][NextPass]_vars

\* C28: processBook creates a document only at a path where no file is; a
\* book whose resolved path holds a file, whatever its header, is updated
\* and is not recorded as a failure.
C28_CreateOnlyOnFreePath ==
    syPc = "books" =>
        \A p \in DOMAIN syDid \cap DOMAIN syBefore : syDid[p] # "failed"

-----------------------------------------------------------------------------
(* The position of a book and its highlights *)

\* the name of a file of the reader without its extension
RdStem(name) ==
    dropSuffix(dropSuffix(dropSuffix(dropSuffix(name, <<".", "e", "p", "u", "b", ".", "p",
          "o">>), <<".", "p", "d", "f", ".", "p", "o">>),
                          <<".", "e", "p", "u", "b", ".", "a", "n">>), <<".", "p", "d", "f",
                                ".", "a", "n">>)

\* the position files of a stem that parse
RdPositionsOf(stem) ==
    { j \in 1..Len(rdFiles) :
        /\ endsWith(rdFiles[j].name, <<".", "p", "o">>)
        /\ RdStem(rdFiles[j].name) = stem
        /\ ~IsNull(parseProgressFile(rdFiles[j].data)) }

\* the annotation files that have a highlight and a position file
RdPaired ==
    { i \in 1..Len(rdFiles) :
        /\ endsWith(rdFiles[i].name, <<".", "a", "n">>)
        /\ ~IsNull(parseAnnotationFile(rdFiles[i].data, rdFiles[i].name))
        /\ Val(parseAnnotationFile(rdFiles[i].data, rdFiles[i].name)).highlights # <<>>
        /\ RdPositionsOf(RdStem(rdFiles[i].name)) # {} }

\* the records returned for the title of an annotation file
RdRecordsOf(i) ==
    { k \in 1..Len(rdResult) :
        /\ rdResult[k].highlights # <<>>
        /\ toLowerCase(rdResult[k].book.title)
             = toLowerCase(actualTitleOf(
                   Val(parseAnnotationFile(rdFiles[i].data, rdFiles[i].name)))) }

\* C27: a book with an annotation file that has a highlight and a position
\* file of the same name that parses: the record with its highlights has
\* the progress, chapter and timestamp of the position file, and no record
\* without highlights is made for the file; also when the title in the
\* annotation data is not the title the file name gives.
C27_ProgressReachesBook ==
    rdPc = "done" =>
        \A i \in RdPaired :
            /\ \A k \in RdRecordsOf(i) :
                  \E j \in RdPositionsOf(RdStem(rdFiles[i].name)) :
                      RdHasPosition(rdResult[k], Val(parseProgressFile(rdFiles[j].data)))
            /\ \A k \in 1..Len(rdResult) :
                  rdResult[k].highlights = <<>> =>
                      rdResult[k].book.filename # RdStem(rdFiles[i].name)

-----------------------------------------------------------------------------
(* The counters of a pass                                                  *)

\* the four outcome counters of a result, added up
SyOutcomes(result) ==
    result.booksCreated + result.booksUpdated + result.booksSkipped + result.booksDeleted

\* the pass has gone through both loops and is about to return
SyPassEnds == syPc = "custom" /\ syCustomAt > Len(syCustomBooks)

\* C30: at the end of every successful pass booksCreated + booksUpdated +
\* booksSkipped + booksDeleted equals booksProcessed, and when the loop over
\* the decoded books is over, booksProcessed plus the number of books the
\* loop recorded in failedBooks equals the number of decoded books; the
\* loop over the custom books does not disturb the balance.
C30_CountersBalance ==
    /\ SyPassEnds => SyOutcomes(syResult) = syResult.booksProcessed
    /\ (syPc = "custom" /\ syCustomAt = 1) =>
          syResult.booksProcessed + Len(syResult.failedBooks) = Len(syBooksWithHighlights)


=============================================================================
